---- MODULE Spec2Model ----
\* Issue tracker (praveen-86176/SurgePV): the service layer over the issue,
\* label and association tables, as a state machine.
\*
\*   Spec      one request at a time; every action is one whole handler
\*             (boundary validation, service, repository, commit/rollback).
\*   SpecConc  request-scoped sessions that interleave statement by statement
\*             on a READ COMMITTED store (PostgreSQL default: the engine of
\*             src/app/core/database.py sets no isolation level).
EXTENDS Integers, Sequences, FiniteSets, TLC

\* ------------------------------------------------------------------ bounds
MaxIssues  == 2     \* issues ever inserted
MaxVersion == 3     \* versioned writes stop once an issue reaches this version
MaxClock   == 2     \* instants of datetime.utcnow(), 1..MaxClock
MaxLabels  == 3     \* label rows ever inserted
MaxList    == 2     \* longest id list / name list a request carries
MaxRows    == 2     \* data rows of an import file (one longer file apart)
MaxImported == 5    \* issue ids the import specifications draw

\* ------------------------------------------------------------ value domains
None     == 0          \* NULL in an integer-valued column (assignee_id, *_at)
Unset    == -1         \* integer field absent from the request body
NoneStr  == "None"     \* NULL in a string/enum-valued column
UnsetStr == "Unset"    \* string/enum field absent from the request body

IssueStatus   == {"open", "in_progress", "resolved", "closed"}
IssuePriority == {"low", "medium", "high", "critical"}
RESOLVED == "resolved"
OPEN     == "open"
MEDIUM   == "medium"

Users      == {1, 3}       \* rows of the users table (no service writes it)
UserIds    == {1, 2, 3}    \* ids a request may name; 2 names no user
LabelNames == {"bug", "urgent"}
IssueIds   == 1 .. (MaxIssues + 1)   \* MaxIssues + 1 never names an issue

\* -------------------------------------------------------------------- state
VARIABLES
  issues,        \* issues table: id -> row
  labels,        \* labels table: id -> row
  issue_labels,  \* association table: set of <<issue_id, label_id>>
  seq,           \* primary-key sequences: [issues, labels, comments |-> n]
  now,           \* the last instant datetime.utcnow() returned
  sess,          \* request-scoped sessions (SpecConc): per session its position
  response,      \* the response of the last finished request
  touched,       \* history: id -> number of committed versioned writes
  comments       \* comments table: id -> row

vars == <<issues, labels, issue_labels, seq, now, sess, response, touched,
          comments>>

Sessions == 1 .. 2

\* A session between requests. pc is the handler's position; obj/dirty are
\* the loaded Issue object and its modified columns; names/ids/ins/old belong
\* to replace_issue_labels (names still to resolve, label ids resolved so far,
\* label rows inserted but not committed, the collection loaded on assignment);
\* rows/imp belong to import_from_csv (rows still to read, the loop's state);
\* loaded/objs belong to bulk_update_status (the rows its SELECT returned and
\* the objects as its loop left them); staged holds the row create_issue or
\* add_comment has flushed; commits and rollbacks count the db.commit() and
\* db.rollback() calls the request has completed.
IdleSession == [pc |-> "idle", op |-> "none", issue_id |-> 0, expected |-> 0,
                obj |-> <<>>, dirty |-> {}, names |-> <<>>, ids |-> <<>>,
                ins |-> <<>>, old |-> {}, code |-> 0,
                rows |-> <<>>, imp |-> <<>>, loaded |-> <<>>, objs |-> <<>>,
                staged |-> <<>>, commits |-> 0, rollbacks |-> 0]

exists_any(user_id) == TRUE
exists(user_id) == user_id \in Users

\* ------------------------------------------------------- request bodies
\* IssueCreate bodies: title min_length 1, status/priority enums with defaults,
\* assignee_id gt 0 or absent.
IssueCreate == [title : {"t1"}, description : {NoneStr},
                status : {OPEN, RESOLVED}, priority : {MEDIUM},
                assignee_id : {None, 2}]

\* IssueUpdate bodies: every field Optional (absent, null or a value);
\* version gt 0. A body sets at most one field here.
NoFields == [title |-> UnsetStr, description |-> UnsetStr, status |-> UnsetStr,
             priority |-> UnsetStr, assignee_id |-> Unset]
PatchFields ==
  {NoFields,
   [NoFields EXCEPT !.title = NoneStr],
   [NoFields EXCEPT !.status = NoneStr],
   [NoFields EXCEPT !.status = RESOLVED],
   [NoFields EXCEPT !.status = "closed"],
   [NoFields EXCEPT !.assignee_id = 1],
   [NoFields EXCEPT !.assignee_id = 2]}
WithVersion(f, v) ==
  [title |-> f.title, description |-> f.description, status |-> f.status,
   priority |-> f.priority, assignee_id |-> f.assignee_id, version |-> v]
IssueUpdate == {WithVersion(f, v) : f \in PatchFields, v \in 1 .. MaxVersion}

\* ---------------------------------------------------------------- the ORM
\* Issue(**issue_data.model_dump()) flushed: column defaults fill version and
\* the two timestamps (each default is its own utcnow() call); resolved_at has
\* no default.
NewIssueResolvedPolicy(d, c, u) ==
  [title |-> d.title, description |-> d.description, status |-> d.status,
   priority |-> d.priority, version |-> 1, assignee_id |-> d.assignee_id,
   created_at |-> c, updated_at |-> u,
   resolved_at |-> IF d.status = RESOLVED THEN c ELSE None]
NewIssue(d, c, u) ==
  [title |-> d.title, description |-> d.description, status |-> d.status,
   priority |-> d.priority, version |-> 1, assignee_id |-> d.assignee_id,
   created_at |-> c, updated_at |-> u, resolved_at |-> None]

\* nullable=False columns a request can write: the flush of a row with NULL in
\* one of them raises IntegrityError.
NotNullOk(issue) ==
  /\ issue.title # NoneStr
  /\ issue.status # NoneStr
  /\ issue.priority # NoneStr

\* update_issue: "if issue.version != issue_data.version" is the negation.
VersionMatchesAlways(issue, p) == TRUE
VersionMatches(issue, p) == issue.version = p.version

\* update_issue: "if issue_data.assignee_id is not None" then user_repo.exists.
AssigneeOk(p) == p.assignee_id \in {Unset, None} \/ exists(p.assignee_id)

\* update_issue: model_dump(exclude={'version'}, exclude_unset=True); setattr.
UpdateFieldsNoExcludeUnset(issue, p) ==
  [issue EXCEPT
     !.title       = IF p.title # UnsetStr THEN p.title ELSE @,
     !.description = IF p.description # UnsetStr THEN p.description ELSE @,
     !.status      = IF p.status # UnsetStr THEN p.status ELSE @,
     !.priority    = IF p.priority # UnsetStr THEN p.priority ELSE @,
     !.assignee_id = IF p.assignee_id # Unset THEN p.assignee_id ELSE None]
UpdateFields(issue, p) ==
  [issue EXCEPT
     !.title       = IF p.title # UnsetStr THEN p.title ELSE @,
     !.description = IF p.description # UnsetStr THEN p.description ELSE @,
     !.status      = IF p.status # UnsetStr THEN p.status ELSE @,
     !.priority    = IF p.priority # UnsetStr THEN p.priority ELSE @,
     !.assignee_id = IF p.assignee_id # Unset THEN p.assignee_id ELSE @]

\* update_issue: the resolved_at branch; it tests the status of the request
\* body (issue_data.status), absent and null both being falsy.
SetResolvedAtOverwrite(issue, p, t) ==
  IF p.status = RESOLVED
    THEN [issue EXCEPT !.resolved_at = t]
  ELSE IF p.status \notin {UnsetStr, NoneStr} /\ p.status # RESOLVED
    THEN [issue EXCEPT !.resolved_at = None]
  ELSE issue
SetResolvedAt(issue, p, t) ==
  IF p.status = RESOLVED /\ issue.resolved_at = None
    THEN [issue EXCEPT !.resolved_at = t]
  ELSE IF p.status \notin {UnsetStr, NoneStr} /\ p.status # RESOLVED
    THEN [issue EXCEPT !.resolved_at = None]
  ELSE issue

\* IssueRepository.update: version += 1; updated_at = utcnow().
RepoUpdateKeepVersion(issue, t) == [issue EXCEPT !.updated_at = t]
RepoUpdate(issue, t) == [issue EXCEPT !.version = @ + 1, !.updated_at = t]

\* The in-memory object update_issue hands to the flush.
UpdatedIssue(issue, p, r, u) ==
  RepoUpdate(SetResolvedAt(UpdateFields(issue, p), p, r), u)

\* IssueRepository.bulk_update_status, the loop body for one issue.
BulkApplyNoVersion(issue, status, u, r) ==
  [issue EXCEPT !.status = status, !.updated_at = u,
                !.resolved_at = IF status = RESOLVED THEN (IF @ = None THEN r ELSE @)
                                ELSE None]
BulkApply(issue, status, u, r) ==
  LET a == [issue EXCEPT !.status = status, !.version = @ + 1, !.updated_at = u]
  IN IF status = RESOLVED /\ a.resolved_at = None
       THEN [a EXCEPT !.resolved_at = r]
     ELSE IF status # RESOLVED
       THEN [a EXCEPT !.resolved_at = None]
     ELSE a

\* Label(name=name, color=color) with get_or_create's default color.
NewLabel(name) == [name |-> name, color |-> NoneStr, description |-> NoneStr]

\* LabelRepository.get_by_name: ids of the rows with that name.
get_by_name(tbl, name) == {l \in DOMAIN tbl : tbl[l].name = name}

\* INSERT INTO labels on the running state st of replace_issue_labels,
\* [labels, next, ids, err]: the sequence hands out the id; a name the table
\* already holds violates the unique index on labels.name (IntegrityError).
NameTakenNever(tbl, name) == FALSE
NameTaken(tbl, name) == get_by_name(tbl, name) # {}

insert_label(st, name) ==
  IF NameTaken(st.labels, name)
    THEN [st EXCEPT !.next = @ + 1, !.err = TRUE]
    ELSE [st EXCEPT !.labels = @ @@ ((st.next + 1) :> NewLabel(name)),
                    !.next = @ + 1,
                    !.ids = Append(@, st.next + 1)]

\* LabelRepository.get_or_create
get_or_create_always_new(st, name) == insert_label(st, name)
get_or_create(st, name) ==
  LET found == get_by_name(st.labels, name)
  IN IF found # {}
       THEN [st EXCEPT !.ids = Append(@, CHOOSE l \in found : TRUE)]
       ELSE insert_label(st, name)

\* replace_issue_labels: "for name in label_names: get_or_create(name)".
RECURSIVE GetOrCreateAll(_, _)
GetOrCreateAll(st, names) ==
  IF names = <<>> \/ st.err THEN st
  ELSE GetOrCreateAll(get_or_create(st, Head(names)), Tail(names))

Range(s) == {s[k] : k \in DOMAIN s}

\* replace_issue_labels: "issue.labels = labels" and the flush: the rows of
\* the issue in the association table become exactly the assigned labels.
AssignLabelsKeepOld(assoc, issue_id, ids) ==
  assoc \cup {<<issue_id, l>> : l \in Range(ids)}
AssignLabelsEveryIssue(assoc, issue_id, ids) ==
  {<<issue_id, l>> : l \in Range(ids)}
AssignLabels(assoc, issue_id, ids) ==
  {pr \in assoc : pr[1] # issue_id} \cup {<<issue_id, l>> : l \in Range(ids)}

\* field_validator validate_unique_ids / validate_unique_labels.
validate_unique_any(v) == TRUE
validate_unique(v) == Len(v) = Cardinality(Range(v))

\* Sequences over S of length lo..hi.
SeqsOf(S, lo, hi) == UNION {[1 .. n -> S] : n \in lo .. hi}

\* The clock: each utcnow() call returns an instant no earlier than the last.
Instants(t) == t .. MaxClock

\* bulk_update_status: "if len(issues) != len(issue_ids)".
AllFoundIgnoringMissing(rows, issue_ids) == TRUE
AllFound(rows, issue_ids) ==
  Cardinality(Range(issue_ids) \cap DOMAIN rows) = Len(issue_ids)

\* bulk_update_status: the loop over the matched rows (in primary-key order),
\* as the set of <<rows, clock>> it can end in: two clock readings per issue.
RECURSIVE BulkLoop(_, _, _, _)
BulkLoop(todo, rows, status, t) ==
  IF todo = {} THEN {<<rows, t>>}
  ELSE LET i == CHOOSE x \in todo : \A y \in todo : x <= y
       IN UNION { BulkLoop(todo \ {i},
                           [rows EXCEPT ![i] = BulkApply(@, status, u, r)],
                           status, r)
                  : <<u, r>> \in {tr \in Instants(t) \X Instants(t) : tr[1] <= tr[2]} }

\* What the model keeps of a response: the handler, the HTTP status, and of
\* the body: id of the issue (IssueResponse), its label names (replace_labels),
\* updated_count, issue_ids and status (BulkStatusUpdateResponse), total_rows,
\* successful, failed and errors (CSVImportResponse), the events of a timeline,
\* the limit asked of a report and its rows.
Respond(op, code) ==
  [op |-> op, code |-> code, issue_id |-> 0, label_names |-> {},
   count |-> 0, issue_ids |-> <<>>, status |-> NoneStr,
   total_rows |-> 0, successful |-> 0, failed |-> 0, errors |-> <<>>,
   events |-> <<>>, limit |-> 0, report |-> <<>>]

\* ---------------------------------------------------------------- Init
Init ==
  /\ issues = <<>>
  /\ labels = <<>>
  /\ issue_labels = {}
  /\ seq = [issues |-> 0, labels |-> 0, comments |-> 0]
  /\ now = 1
  /\ sess = [s \in Sessions |-> IdleSession]
  /\ response = Respond("none", 0)
  /\ touched = <<>>
  /\ comments = <<>>

\* ------------------------------------------- handlers, one request at a time
\* IssueService.create_issue: the status it answers.
create_code_unchecked(d) == 201
create_code(d) ==
  IF d.assignee_id # None /\ ~exists(d.assignee_id) THEN 400 ELSE 201

\* IssueService.create_issue; c and u are the clock readings of the two
\* timestamp defaults.
create_issue(d, c, u) ==
  /\ seq.issues < MaxIssues
  /\ c \in Instants(now) /\ u \in Instants(c)
  /\ IF create_code(d) = 400
       THEN /\ response' = Respond("create_issue", 400)
            /\ UNCHANGED <<issues, labels, issue_labels, seq, now, sess, touched, comments>>
       ELSE LET id == seq.issues + 1
            IN /\ issues' = issues @@ (id :> NewIssue(d, c, u))
               /\ touched' = touched @@ (id :> 0)
               /\ seq' = [seq EXCEPT !.issues = id]
               /\ now' = u
               /\ response' = [Respond("create_issue", 201) EXCEPT !.issue_id = id]
               /\ UNCHANGED <<labels, issue_labels, sess, comments>>

\* IssueService.update_issue: the status it answers, by its checks in order;
\* 500 is the IntegrityError of the flush.
update_code_assignee_first(issue_id, p) ==
  IF issue_id \notin DOMAIN issues THEN 404
  ELSE IF ~AssigneeOk(p) THEN 400
  ELSE IF ~VersionMatches(issues[issue_id], p) THEN 409
  ELSE IF ~NotNullOk(UpdateFields(issues[issue_id], p)) THEN 500
  ELSE 200
update_code(issue_id, p) ==
  IF issue_id \notin DOMAIN issues THEN 404
  ELSE IF ~VersionMatches(issues[issue_id], p) THEN 409
  ELSE IF ~AssigneeOk(p) THEN 400
  ELSE IF ~NotNullOk(UpdateFields(issues[issue_id], p)) THEN 500
  ELSE 200

\* IssueService.update_issue
update_issue(issue_id, p) ==
  LET code == update_code(issue_id, p)
  IN IF code \in {404, 409, 400}
       THEN /\ response' = Respond("update_issue", code)
            /\ UNCHANGED <<issues, labels, issue_labels, seq, now, sess, touched, comments>>
       ELSE /\ issues[issue_id].version < MaxVersion
            /\ \E r \in Instants(now) : \E u \in Instants(r) :
                 /\ now' = u
                 /\ IF code = 200
                      THEN /\ issues' = [issues EXCEPT ![issue_id] =
                                           UpdatedIssue(@, p, r, u)]
                           /\ touched' = [touched EXCEPT ![issue_id] = @ + 1]
                           /\ response' = [Respond("update_issue", 200)
                                             EXCEPT !.issue_id = issue_id]
                      ELSE /\ response' = Respond("update_issue", 500)
                           /\ UNCHANGED <<issues, touched>>
            /\ UNCHANGED <<labels, issue_labels, seq, sess, comments>>

\* IssueService.bulk_update_status behind the BulkStatusUpdate schema: the
\* status it answers (422: the schema refuses the body; 400: ValueError).
bulk_code(issue_ids) ==
  IF Len(issue_ids) < 1 \/ ~validate_unique(issue_ids) THEN 422
  ELSE IF ~AllFound(issues, issue_ids) THEN 400
  ELSE 200

\* IssueService.bulk_update_status
bulk_update_status(issue_ids, status) ==
  LET code == bulk_code(issue_ids)
  IN IF code # 200
       THEN /\ response' = Respond("bulk_update_status", code)
            /\ UNCHANGED <<issues, labels, issue_labels, seq, now, sess, touched, comments>>
       ELSE LET matched == Range(issue_ids) \cap DOMAIN issues
            IN /\ \A i \in matched : issues[i].version < MaxVersion
               /\ \E out \in BulkLoop(matched, issues, status, now) :
                    /\ issues' = out[1]
                    /\ now' = out[2]
               /\ touched' = [i \in DOMAIN touched |->
                                IF i \in matched THEN touched[i] + 1 ELSE touched[i]]
               /\ response' = [Respond("bulk_update_status", 200) EXCEPT
                                 !.count = Cardinality(matched),
                                 !.issue_ids = issue_ids,
                                 !.status = status]
               /\ UNCHANGED <<labels, issue_labels, seq, sess, comments>>

\* IssueService.replace_labels behind the LabelAssignment schema, as a
\* function of the tables: the status it answers (422: the schema refuses the
\* body; 500: IntegrityError of a label INSERT) and the tables it commits.
replace_result_labels_first(issue_id, names) ==
  LET st == GetOrCreateAll([labels |-> labels, next |-> seq.labels,
                            ids |-> <<>>, err |-> FALSE], names)
      same == [code |-> 0, labels |-> labels, issue_labels |-> issue_labels,
               next |-> seq.labels]
  IN IF ~validate_unique(names) THEN [same EXCEPT !.code = 422]
     ELSE IF st.err THEN [same EXCEPT !.code = 500, !.next = st.next]
     ELSE IF issue_id \notin DOMAIN issues
       THEN [same EXCEPT !.code = 404, !.labels = st.labels, !.next = st.next]
     ELSE [code |-> 200, labels |-> st.labels,
           issue_labels |-> AssignLabels(issue_labels, issue_id, st.ids),
           next |-> st.next]
replace_result(issue_id, names) ==
  LET st == GetOrCreateAll([labels |-> labels, next |-> seq.labels,
                            ids |-> <<>>, err |-> FALSE], names)
      same == [code |-> 0, labels |-> labels, issue_labels |-> issue_labels,
               next |-> seq.labels]
  IN IF ~validate_unique(names) THEN [same EXCEPT !.code = 422]
     ELSE IF issue_id \notin DOMAIN issues THEN [same EXCEPT !.code = 404]
     ELSE IF st.err THEN [same EXCEPT !.code = 500, !.next = st.next]
     ELSE [code |-> 200, labels |-> st.labels,
           issue_labels |-> AssignLabels(issue_labels, issue_id, st.ids),
           next |-> st.next]

\* IssueService.replace_labels
replace_labels(issue_id, names) ==
  LET res == replace_result(issue_id, names)
  IN /\ res.next <= MaxLabels
     /\ labels' = res.labels
     /\ issue_labels' = res.issue_labels
     /\ seq' = [seq EXCEPT !.labels = res.next]
     /\ response' = IF res.code = 200
                      THEN [Respond("replace_labels", 200) EXCEPT
                              !.issue_id = issue_id,
                              !.label_names = Range(names)]
                      ELSE Respond("replace_labels", res.code)
     /\ UNCHANGED <<issues, now, sess, touched, comments>>

BulkLists == SeqsOf(IssueIds, 0, MaxList)
NameLists == SeqsOf(LabelNames, 0, MaxList)

Next ==
  \/ \E d \in IssueCreate, c \in Instants(now), u \in Instants(now) :
       create_issue(d, c, u)
  \/ \E i \in IssueIds, p \in IssueUpdate : update_issue(i, p)
  \/ \E ids \in BulkLists, s \in {RESOLVED, OPEN} : bulk_update_status(ids, s)

Spec == Init /\ [][Next]_vars

\* Issues and their labels, one request at a time.
NextLabels ==
  \/ \E d \in IssueCreate : create_issue(d, now, now)
  \/ \E i \in IssueIds, names \in NameLists : replace_labels(i, names)

SpecLabels == Init /\ [][NextLabels]_vars

\* The names of the labels associated with an issue.
LabelsOf(issue_id) == {l \in DOMAIN labels : <<issue_id, l>> \in issue_labels}
LabelNamesOf(issue_id) == {labels[l].name : l \in LabelsOf(issue_id)}

\* IssueService.get_issue: the label names a reader's SELECT returns, which are
\* those of the rows committed at that moment.
Observed(issue_id) == LabelNamesOf(issue_id)

\* --------------------------------------------- handlers, statement by statement
\* Each request runs in its own AsyncSession (get_db), so in its own
\* transaction; the engine sets no isolation level, so every SELECT reads the
\* rows committed at that moment (READ COMMITTED), an UPDATE waits for the row
\* lock of an uncommitted writer and then writes the latest row, and nothing a
\* session flushed is visible to the others before its commit. A request that
\* raises closes its session without commit (rollback).

Columns == {"title", "description", "status", "priority", "version",
            "assignee_id", "created_at", "updated_at", "resolved_at"}

\* The unit of work's UPDATE: only attributes whose value changed.
Modified(loaded, obj) == {c \in Columns : obj[c] # loaded[c]}

\* UPDATE issues SET <dirty columns> WHERE issues.id = :id
ApplyUpdate(row, obj, dirty) ==
  [c \in Columns |-> IF c \in dirty THEN obj[c] ELSE row[c]]

Finish(s, op, code) ==
  /\ sess' = [sess EXCEPT ![s] = [IdleSession EXCEPT
                !.pc = "done", !.op = op, !.code = code,
                !.issue_id = sess[s].issue_id, !.expected = sess[s].expected]]
  /\ response' = [Respond(op, code) EXCEPT !.issue_id =
                    IF code = 200 THEN sess[s].issue_id ELSE 0]

\* db.commit() has returned: the request answers 200.
FinishCommit(s, op) ==
  /\ sess' = [sess EXCEPT ![s] = [IdleSession EXCEPT
                !.pc = "done", !.op = op, !.code = 200,
                !.issue_id = sess[s].issue_id, !.expected = sess[s].expected,
                !.commits = sess[s].commits + 1]]
  /\ response' = [Respond(op, 200) EXCEPT !.issue_id = sess[s].issue_id]

\* update_issue up to the flush: get_by_id, the three checks, the in-memory
\* modification and IssueRepository.update's increment; r and u are the clock
\* readings for resolved_at and updated_at.
begin_update(s, issue_id, p, r, u) ==
  /\ sess[s].pc \in {"idle", "done"}
  /\ r \in Instants(now) /\ u \in Instants(r)
  /\ LET code == update_code(issue_id, p)
     IN IF code \in {404, 409, 400}
          THEN /\ sess' = [sess EXCEPT ![s] = [IdleSession EXCEPT
                             !.pc = "done", !.op = "update_issue", !.code = code,
                             !.issue_id = issue_id, !.expected = p.version]]
               /\ response' = Respond("update_issue", code)
               /\ UNCHANGED <<issues, labels, issue_labels, seq, now, touched, comments>>
          ELSE /\ issues[issue_id].version < MaxVersion
               /\ LET obj == UpdatedIssue(issues[issue_id], p, r, u)
                  IN sess' = [sess EXCEPT ![s] = [IdleSession EXCEPT
                                !.pc = "loaded", !.op = "update_issue",
                                !.issue_id = issue_id, !.expected = p.version,
                                !.obj = obj,
                                !.dirty = Modified(issues[issue_id], obj)]]
               /\ now' = u
               /\ UNCHANGED <<issues, labels, issue_labels, seq, response, touched, comments>>

\* Another session holds the row lock of the issue (flushed, not committed).
RowLocked(s, issue_id) ==
  \E t \in Sessions \ {s} :
    /\ sess[t].pc = "flushed"
    /\ \/ sess[t].op = "update_issue" /\ sess[t].issue_id = issue_id
       \/ sess[t].op = "bulk_update_status" /\ issue_id \in DOMAIN sess[t].objs

\* IssueRepository.update: flush (the UPDATE) and refresh.
flush_update(s) ==
  /\ sess[s].pc = "loaded"
  /\ sess[s].op = "update_issue"
  /\ ~RowLocked(s, sess[s].issue_id)
  /\ IF NotNullOk(sess[s].obj)
       THEN /\ sess' = [sess EXCEPT ![s].pc = "flushed"]
            /\ UNCHANGED response
       ELSE Finish(s, "update_issue", 500)
  /\ UNCHANGED <<issues, labels, issue_labels, seq, now, touched, comments>>

\* update_issue: db.commit() and the response.
commit_update(s) ==
  /\ sess[s].pc = "flushed"
  /\ sess[s].op = "update_issue"
  /\ issues' = [issues EXCEPT ![sess[s].issue_id] =
                   ApplyUpdate(@, sess[s].obj, sess[s].dirty)]
  /\ touched' = [touched EXCEPT ![sess[s].issue_id] = @ + 1]
  /\ FinishCommit(s, "update_issue")
  /\ UNCHANGED <<labels, issue_labels, seq, now, comments>>

\* replace_labels up to the first get_or_create: the schema, get_by_id.
begin_labels(s, issue_id, names) ==
  /\ sess[s].pc \in {"idle", "done"}
  /\ LET code == IF ~validate_unique(names) THEN 422
                 ELSE IF issue_id \notin DOMAIN issues THEN 404 ELSE 0
     IN IF code # 0
          THEN /\ sess' = [sess EXCEPT ![s] = [IdleSession EXCEPT
                             !.pc = "done", !.op = "replace_labels", !.code = code,
                             !.issue_id = issue_id]]
               /\ response' = Respond("replace_labels", code)
          ELSE /\ sess' = [sess EXCEPT ![s] = [IdleSession EXCEPT
                             !.pc = "lookup", !.op = "replace_labels",
                             !.issue_id = issue_id, !.names = names]]
               /\ UNCHANGED response
  /\ UNCHANGED <<issues, labels, issue_labels, seq, now, touched, comments>>

\* The label rows a session's SELECT sees: committed ones and its own.
Visible(s) == labels @@ sess[s].ins

\* get_or_create: get_by_name for the next name.
lookup_label(s) ==
  /\ sess[s].pc = "lookup"
  /\ IF sess[s].names = <<>>
       THEN sess' = [sess EXCEPT ![s].pc = "assign"]
       ELSE LET found == get_by_name(Visible(s), Head(sess[s].names))
            IN IF found # {}
                 THEN sess' = [sess EXCEPT
                                 ![s].ids = Append(@, CHOOSE l \in found : TRUE),
                                 ![s].names = Tail(@)]
                 ELSE sess' = [sess EXCEPT ![s].pc = "insert"]
  /\ UNCHANGED <<issues, labels, issue_labels, seq, now, response, touched, comments>>

\* Another session inserted the name and has not committed: the INSERT waits
\* on the unique index.
NamePending(s, name) ==
  \E t \in Sessions \ {s} : get_by_name(sess[t].ins, name) # {}

\* get_or_create: LabelRepository.create (INSERT, flush) for the next name.
insert_label_row(s) ==
  /\ sess[s].pc = "insert"
  /\ seq.labels < MaxLabels
  /\ LET name == Head(sess[s].names)
         st == insert_label([labels |-> Visible(s), next |-> seq.labels,
                             ids |-> sess[s].ids, err |-> FALSE], name)
     IN /\ ~NamePending(s, name)
        /\ seq' = [seq EXCEPT !.labels = st.next]
        /\ IF st.err
             THEN Finish(s, "replace_labels", 500)
             ELSE /\ sess' = [sess EXCEPT
                                ![s].pc = "lookup",
                                ![s].ins = @ @@ (st.next :> NewLabel(name)),
                                ![s].ids = st.ids,
                                ![s].names = Tail(@)]
                  /\ UNCHANGED response
  /\ UNCHANGED <<issues, labels, issue_labels, now, touched, comments>>

\* replace_issue_labels: "issue.labels = labels" loads the collection it
\* replaces.
assign_labels(s) ==
  /\ sess[s].pc = "assign"
  /\ sess' = [sess EXCEPT ![s].pc = "flush_assoc",
                          ![s].old = LabelsOf(sess[s].issue_id)]
  /\ UNCHANGED <<issues, labels, issue_labels, seq, now, response, touched, comments>>

\* The association rows the flush inserts and deletes: the difference between
\* the assigned collection and the loaded one.
AssocAdd(s) == {<<sess[s].issue_id, l>> : l \in Range(sess[s].ids) \ sess[s].old}
AssocDel(s) == {<<sess[s].issue_id, l>> : l \in sess[s].old \ Range(sess[s].ids)}

\* Another session wrote one of these association rows and has not committed.
AssocLocked(s, prs) ==
  \E t \in Sessions \ {s} :
    /\ sess[t].pc = "flushed"
    /\ sess[t].op = "replace_labels"
    /\ (AssocAdd(t) \cup AssocDel(t)) \cap prs # {}

\* replace_issue_labels: the flush. Inserting a committed row violates the
\* primary key; deleting a row that is gone matches no row (StaleDataError).
flush_labels(s) ==
  /\ sess[s].pc = "flush_assoc"
  /\ ~AssocLocked(s, AssocAdd(s) \cup AssocDel(s))
  /\ IF AssocAdd(s) \cap issue_labels = {} /\ AssocDel(s) \subseteq issue_labels
       THEN /\ sess' = [sess EXCEPT ![s].pc = "flushed"]
            /\ UNCHANGED response
       ELSE Finish(s, "replace_labels", 500)
  /\ UNCHANGED <<issues, labels, issue_labels, seq, now, touched, comments>>

\* replace_labels: db.commit() and the response.
commit_labels(s) ==
  /\ sess[s].pc = "flushed"
  /\ sess[s].op = "replace_labels"
  /\ labels' = labels @@ sess[s].ins
  /\ issue_labels' = (issue_labels \ AssocDel(s)) \cup AssocAdd(s)
  /\ sess' = [sess EXCEPT ![s] = [IdleSession EXCEPT
                !.pc = "done", !.op = "replace_labels", !.code = 200,
                !.issue_id = sess[s].issue_id,
                !.commits = sess[s].commits + 1]]
  /\ response' = [Respond("replace_labels", 200) EXCEPT
                    !.issue_id = sess[s].issue_id,
                    !.label_names = {Visible(s)[l].name : l \in Range(sess[s].ids)}]
  /\ UNCHANGED <<issues, seq, now, touched, comments>>

ConcCreate == [title |-> "t1", description |-> NoneStr, status |-> OPEN,
               priority |-> MEDIUM, assignee_id |-> None]
ConcUpdate == {WithVersion(f, v) :
                  f \in {[NoFields EXCEPT !.status = RESOLVED],
                         [NoFields EXCEPT !.assignee_id = 1]},
                  v \in 1 .. MaxVersion}

\* Concurrent update_issue requests on one issue, within one clock instant.
NextConc ==
  \/ issues = <<>> /\ create_issue(ConcCreate, now, now)
  \/ \E s \in Sessions, i \in {1, MaxIssues + 1}, p \in ConcUpdate :
       begin_update(s, i, p, now, now)
  \/ \E s \in Sessions : flush_update(s)
  \/ \E s \in Sessions : commit_update(s)

SpecConc == Init /\ [][NextConc]_vars

\* Concurrent replace_labels requests on one issue.
ConcNames == {<<>>, <<"bug">>, <<"urgent">>, <<"bug", "urgent">>, <<"bug", "bug">>}

NextConcLabels ==
  \/ issues = <<>> /\ create_issue(ConcCreate, now, now)
  \/ \E s \in Sessions, i \in {1, MaxIssues + 1}, names \in ConcNames :
       begin_labels(s, i, names)
  \/ \E s \in Sessions : lookup_label(s)
  \/ \E s \in Sessions : insert_label_row(s)
  \/ \E s \in Sessions : assign_labels(s)
  \/ \E s \in Sessions : flush_labels(s)
  \/ \E s \in Sessions : commit_labels(s)

SpecConcLabels == Init /\ [][NextConcLabels]_vars

\* ------------------------------------------------------------ batch import
\* A data row as csv.DictReader yields it: raw cells, "" for an empty or
\* missing one. LongTitle stands for a title of more than 500 characters.
LongTitle == "t501"
RowValid    == [title |-> "t1", status |-> "", priority |-> "", assignee_id |-> ""]
RowResolved == [title |-> "t1", status |-> "RESOLVED", priority |-> "HIGH",
                assignee_id |-> "1"]
RowNoTitle  == [RowValid EXCEPT !.title = ""]
RowBadStatus == [RowValid EXCEPT !.status = "bogus"]
RowBadPriority == [RowValid EXCEPT !.priority = "bogus"]
RowNoSuchUser == [RowValid EXCEPT !.assignee_id = "2"]
RowBadAssignee == [RowValid EXCEPT !.assignee_id = "x"]
RowTwoErrors == [RowValid EXCEPT !.title = "", !.status = "bogus"]
RowLongTitle == [RowValid EXCEPT !.title = LongTitle]
ImportRows == {RowValid, RowResolved, RowNoTitle, RowBadStatus, RowBadPriority,
               RowNoSuchUser, RowBadAssignee, RowTwoErrors, RowLongTitle}

\* str.lower() on the cells above.
Lower(c) == CASE c = "RESOLVED" -> "resolved"
              [] c = "HIGH" -> "high"
              [] OTHER -> c

\* int(cell): the cells it parses, and their values.
IsInt(c) == c \in {"1", "2", "3"}
IntOf(c) == CASE c = "1" -> 1 [] c = "2" -> 2 [] c = "3" -> 3 [] OTHER -> 0

\* import_from_csv: the checks on title, status and priority, in order.
FieldErrorsTitleOnly(row) ==
  IF row.title = "" THEN <<"Title is required">> ELSE <<>>
FieldErrors(row) ==
  (IF row.title = "" THEN <<"Title is required">> ELSE <<>>)
  \o (IF row.status # "" /\ Lower(row.status) \notin IssueStatus
        THEN <<"Invalid status">> ELSE <<>>)
  \o (IF row.priority # "" /\ Lower(row.priority) \notin IssuePriority
        THEN <<"Invalid priority">> ELSE <<>>)

\* import_from_csv: the assignee_id check.
AssigneeErrors(row) ==
  IF row.assignee_id = "" THEN <<>>
  ELSE IF ~IsInt(row.assignee_id) THEN <<"Invalid assignee_id">>
  ELSE IF ~exists(IntOf(row.assignee_id)) THEN <<"Assignee does not exist">>
  ELSE <<>>

RowErrors(row) == FieldErrors(row) \o AssigneeErrors(row)

\* import_from_csv: Issue(title=..., description=..., status=..., ...) of a
\* row without errors.
RowIssue(row) ==
  [title |-> row.title, description |-> "",
   status |-> IF row.status = "" THEN OPEN ELSE Lower(row.status),
   priority |-> IF row.priority = "" THEN MEDIUM ELSE Lower(row.priority),
   assignee_id |-> IF row.assignee_id = "" THEN None ELSE IntOf(row.assignee_id)]

\* issues.title is String(500): the INSERT of a longer title fails.
TitleFits(title) == title # LongTitle

\* CSVImportError
ImportErrorSameRow(row_num, errs) == [row_number |-> 2, errors |-> errs]
ImportErrorFromOne(row_num, errs) == [row_number |-> row_num - 1, errors |-> errs]
ImportError(row_num, errs) == [row_number |-> row_num, errors |-> errs]

\* import_from_csv: one pass of the loop body, on the running state st =
\* [total_rows, successful, errors, added, next, poisoned]. added holds the
\* rows flushed in this transaction; a failed flush rolls the transaction back
\* and leaves the session refusing every later statement (poisoned) until the
\* rollback nobody calls: each later row then ends in the except branch, at its
\* user_repo.exists call or at its flush.
ImportStep(st, row, row_num, c, u) ==
  LET t == [st EXCEPT !.total_rows = @ + 1]
      unexpected(errs) ==
        [t EXCEPT !.errors = Append(@, ImportError(row_num,
                                       Append(errs, "Unexpected error")))]
  IN IF st.poisoned /\ row.assignee_id # "" /\ IsInt(row.assignee_id)
       THEN unexpected(FieldErrors(row))
     ELSE IF RowErrors(row) # <<>>
       THEN [t EXCEPT !.errors = Append(@, ImportError(row_num, RowErrors(row)))]
     ELSE IF st.poisoned
       THEN unexpected(<<>>)
     ELSE IF ~TitleFits(row.title)
       THEN [unexpected(<<>>) EXCEPT !.added = <<>>, !.next = @ + 1,
                                     !.poisoned = TRUE]
     ELSE [t EXCEPT !.added = @ @@ ((st.next + 1) :> NewIssue(RowIssue(row), c, u)),
                    !.next = @ + 1,
                    !.successful = @ + 1]

\* import_from_csv: "for row_num, row in enumerate(csv_reader, start=2)".
RECURSIVE ImportLoop(_, _, _, _, _)
ImportLoop(st, rows, k, c, u) ==
  IF k > Len(rows) THEN st
  ELSE ImportLoop(ImportStep(st, rows[k], k + 1, c, u), rows, k + 1, c, u)

\* IssueService.import_from_csv as a function of the file and the tables:
\* the status it answers (400: not a .csv name; 500: the commit of a poisoned
\* session raises), the body, the rows it commits and the sequence value.
ImportOutcome(is_csv, rows, c, u) ==
  LET st == ImportLoop([total_rows |-> 0, successful |-> 0, errors |-> <<>>,
                        added |-> <<>>, next |-> seq.issues, poisoned |-> FALSE],
                       rows, 1, c, u)
      none == [code |-> 400, total_rows |-> 0, successful |-> 0, failed |-> 0,
               errors |-> <<>>, committed |-> <<>>, next |-> seq.issues]
  IN IF ~is_csv THEN none
     ELSE IF st.poisoned THEN [none EXCEPT !.code = 500, !.next = st.next]
     ELSE [code |-> 200, total_rows |-> st.total_rows,
           successful |-> st.successful, failed |-> Len(st.errors),
           errors |-> st.errors, committed |-> st.added, next |-> st.next]

\* IssueService.import_from_csv; the rows of one batch read the clock between
\* c and u (one pair of readings stands for the batch).
import_from_csv(is_csv, rows, c, u) ==
  /\ seq.issues + Len(rows) <= MaxImported
  /\ c \in Instants(now) /\ u \in Instants(c)
  /\ \E o \in {ImportOutcome(is_csv, rows, c, u)} :
        /\ issues' = issues @@ o.committed
        /\ touched' = touched @@ [i \in DOMAIN o.committed |-> 0]
        /\ seq' = [seq EXCEPT !.issues = o.next]
        /\ now' = IF o.next > seq.issues THEN u ELSE now
        /\ response' = IF o.code = 200
                         THEN [Respond("import_from_csv", 200) EXCEPT
                                 !.total_rows = o.total_rows,
                                 !.successful = o.successful,
                                 !.failed = o.failed,
                                 !.errors = o.errors]
                         ELSE Respond("import_from_csv", o.code)
  /\ UNCHANGED <<labels, issue_labels, sess, comments>>

\* The 5-row file of the spec's example: the second data row has an
\* unparsable status.
FiveRows == <<RowValid, RowBadStatus, RowValid, RowResolved, RowValid>>
\* A file with errors on its first and last rows around a valid row.
MixedRows == <<RowNoTitle, RowValid, RowTwoErrors>>
ImportFiles == SeqsOf(ImportRows, 0, MaxRows) \cup {FiveRows, MixedRows}

NextImport ==
  \/ \E rows \in ImportFiles : import_from_csv(TRUE, rows, now, now)
  \/ import_from_csv(FALSE, <<>>, now, now)

SpecImport == Init /\ [][NextImport]_vars

\* ----------------------------------------- batch import, statement by statement
\* import_from_csv up to the loop: the file name check and the empty counters.
begin_import(s, is_csv, rows) ==
  /\ sess[s].pc \in {"idle", "done"}
  /\ IF ~is_csv
       THEN /\ sess' = [sess EXCEPT ![s] = [IdleSession EXCEPT
                          !.pc = "done", !.op = "import_from_csv", !.code = 400]]
            /\ response' = Respond("import_from_csv", 400)
       ELSE /\ sess' = [sess EXCEPT ![s] = [IdleSession EXCEPT
                          !.pc = "importing", !.op = "import_from_csv",
                          !.rows = rows,
                          !.imp = [total_rows |-> 0, successful |-> 0,
                                   errors |-> <<>>, added |-> <<>>,
                                   next |-> seq.issues, poisoned |-> FALSE]]]
            /\ UNCHANGED response
  /\ UNCHANGED <<issues, labels, issue_labels, seq, now, touched, comments>>

\* IssueRepository.create: add, flush, refresh. The INSERT stays inside the
\* session's transaction: the committed table is as it was.
FlushRowsAutocommit(tbl, st) == tbl @@ st.added
FlushRows(tbl, st) == tbl

\* import_from_csv: one pass of the loop; the sequence is shared, so the id
\* comes from its current value.
import_row(s) ==
  /\ sess[s].pc = "importing"
  /\ sess[s].rows # <<>>
  /\ seq.issues < MaxImported
  /\ \E st \in {ImportStep([sess[s].imp EXCEPT !.next = seq.issues],
                           Head(sess[s].rows), sess[s].imp.total_rows + 2,
                           now, now)} :
       /\ sess' = [sess EXCEPT ![s].imp = st, ![s].rows = Tail(@)]
       /\ seq' = [seq EXCEPT !.issues = st.next]
       /\ issues' = FlushRows(issues, st)
       /\ touched' = [i \in DOMAIN issues' |->
                        IF i \in DOMAIN touched THEN touched[i] ELSE 0]
  /\ UNCHANGED <<labels, issue_labels, now, response, comments>>

\* import_from_csv: db.commit() after the loop, then the response; the commit
\* of a poisoned session raises.
commit_import(s) ==
  /\ sess[s].pc = "importing"
  /\ sess[s].rows = <<>>
  /\ \E st \in {sess[s].imp} :
       IF st.poisoned
         THEN /\ Finish(s, "import_from_csv", 500)
              /\ UNCHANGED <<issues, touched>>
         ELSE /\ issues' = issues @@ st.added
              /\ touched' = touched @@ [i \in DOMAIN st.added |-> 0]
              /\ sess' = [sess EXCEPT ![s] = [IdleSession EXCEPT
                            !.pc = "done", !.op = "import_from_csv",
                            !.code = 200,
                            !.commits = sess[s].commits + 1]]
              /\ response' = [Respond("import_from_csv", 200) EXCEPT
                                !.total_rows = st.total_rows,
                                !.successful = st.successful,
                                !.failed = Len(st.errors),
                                !.errors = st.errors]
  /\ UNCHANGED <<labels, issue_labels, seq, now, comments>>

\* The request ends before its commit completes (the connection to the
\* database or to the client is lost): get_db closes the session, which rolls
\* the transaction back.
abort_import(s) ==
  /\ sess[s].pc = "importing"
  /\ Finish(s, "import_from_csv", 500)
  /\ UNCHANGED <<issues, labels, issue_labels, seq, now, touched, comments>>

ConcFiles == {<<RowValid>>, <<RowResolved, RowBadStatus>>,
              <<RowValid, RowLongTitle, RowValid>>}

NextConcImport ==
  \/ \E s \in Sessions, rows \in ConcFiles : begin_import(s, TRUE, rows)
  \/ \E s \in Sessions : begin_import(s, FALSE, <<>>)
  \/ \E s \in Sessions : import_row(s)
  \/ \E s \in Sessions : commit_import(s)
  \/ \E s \in Sessions : abort_import(s)

SpecConcImport == Init /\ [][NextConcImport]_vars

\* ------------------------------------- bulk transition, statement by statement
\* bulk_update_status up to the flush: the schema, the SELECT, the length
\* check (its ValueError is answered 400 after db.rollback()) and the loop
\* over the loaded objects.
begin_bulk(s, issue_ids, status) ==
  /\ sess[s].pc \in {"idle", "done"}
  /\ LET code == bulk_code(issue_ids)
         matched == Range(issue_ids) \cap DOMAIN issues
     IN IF code # 200
          THEN /\ sess' = [sess EXCEPT ![s] = [IdleSession EXCEPT
                             !.pc = "done", !.op = "bulk_update_status",
                             !.code = code,
                             !.rollbacks = IF code = 400 THEN 1 ELSE 0]]
               /\ response' = Respond("bulk_update_status", code)
               /\ UNCHANGED now
          ELSE /\ \A i \in matched : issues[i].version < MaxVersion
               /\ \E out \in BulkLoop(matched, issues, status, now) :
                    /\ sess' = [sess EXCEPT ![s] = [IdleSession EXCEPT
                                  !.pc = "loaded", !.op = "bulk_update_status",
                                  !.loaded = [i \in matched |-> issues[i]],
                                  !.objs = [i \in matched |-> out[1][i]]]]
                    /\ now' = out[2]
               /\ UNCHANGED response
  /\ UNCHANGED <<issues, labels, issue_labels, seq, touched, comments>>

\* IssueRepository.bulk_update_status: the flush, one UPDATE per loaded object.
flush_bulk(s) ==
  /\ sess[s].pc = "loaded"
  /\ sess[s].op = "bulk_update_status"
  /\ \A i \in DOMAIN sess[s].objs : ~RowLocked(s, i)
  /\ sess' = [sess EXCEPT ![s].pc = "flushed"]
  /\ UNCHANGED <<issues, labels, issue_labels, seq, now, response, touched,
                 comments>>

\* bulk_update_status: db.commit() and the response.
commit_bulk(s) ==
  /\ sess[s].pc = "flushed"
  /\ sess[s].op = "bulk_update_status"
  /\ issues' = [i \in DOMAIN issues |->
                  IF i \in DOMAIN sess[s].objs
                    THEN ApplyUpdate(issues[i], sess[s].objs[i],
                                     Modified(sess[s].loaded[i], sess[s].objs[i]))
                    ELSE issues[i]]
  /\ touched' = [i \in DOMAIN touched |->
                   IF i \in DOMAIN sess[s].objs THEN touched[i] + 1
                   ELSE touched[i]]
  /\ sess' = [sess EXCEPT ![s] = [IdleSession EXCEPT
                !.pc = "done", !.op = "bulk_update_status", !.code = 200,
                !.commits = sess[s].commits + 1]]
  /\ response' = [Respond("bulk_update_status", 200) EXCEPT
                    !.count = Cardinality(DOMAIN sess[s].objs)]
  /\ UNCHANGED <<labels, issue_labels, seq, now, comments>>

\* A bulk transition concurrent with update_issue requests on one issue.
NextConcBulk ==
  \/ issues = <<>> /\ create_issue(ConcCreate, now, now)
  \/ \E s \in Sessions, p \in ConcUpdate : begin_update(s, 1, p, now, now)
  \/ \E s \in Sessions : flush_update(s)
  \/ \E s \in Sessions : commit_update(s)
  \/ \E s \in Sessions, ids \in {<<1>>, <<1, MaxIssues>>},
        status \in {RESOLVED, OPEN} : begin_bulk(s, ids, status)
  \/ \E s \in Sessions : flush_bulk(s)
  \/ \E s \in Sessions : commit_bulk(s)

SpecConcBulk == Init /\ [][NextConcBulk]_vars

\* ------------------------------------------------------------------ comments
MaxComments == 2    \* comment rows ever inserted

\* A comment body is a sequence of characters; " " is whitespace.
Bodies == {<<>>, <<" ">>, <<" ", "a">>, <<"a", " ", "b">>}

\* str.strip()
RECURSIVE lstrip(_)
lstrip(body) ==
  IF body = <<>> \/ Head(body) # " " THEN body ELSE lstrip(Tail(body))
RECURSIVE rstrip(_)
rstrip(body) ==
  IF body = <<>> \/ body[Len(body)] # " " THEN body
  ELSE rstrip(SubSeq(body, 1, Len(body) - 1))
strip(body) == rstrip(lstrip(body))

\* CommentCreate: body has min_length 1 and is not only whitespace, author_id
\* is greater than 0; the body the service receives is the stripped one.
CommentCreate == [body : Bodies, author_id : {0} \cup UserIds]
validate_body_min_length(body) == Len(body) >= 1
validate_body_not_empty(body) == Len(body) >= 1 /\ strip(body) # <<>>
CommentValid(d) == validate_body_not_empty(d.body) /\ d.author_id > 0

\* Comment(issue_id, body, author_id) with its column defaults read at c, u.
NewComment(issue_id, d, c, u) ==
  [issue_id |-> issue_id, body |-> strip(d.body), author_id |-> d.author_id,
   created_at |-> c, updated_at |-> u]

\* IssueService.add_comment behind the CommentCreate schema: the status it
\* answers (422: the schema refuses the body).
comment_code(issue_id, d) ==
  IF ~CommentValid(d) THEN 422
  ELSE IF issue_id \notin DOMAIN issues THEN 404
  ELSE IF ~exists(d.author_id) THEN 400
  ELSE 201

\* IssueService.add_comment
add_comment(issue_id, d, c, u) ==
  /\ seq.comments < MaxComments
  /\ c \in Instants(now) /\ u \in Instants(c)
  /\ LET code == comment_code(issue_id, d)
     IN IF code # 201
          THEN /\ response' = Respond("add_comment", code)
               /\ UNCHANGED <<issues, labels, issue_labels, seq, now, sess,
                              touched, comments>>
          ELSE LET id == seq.comments + 1
               IN /\ comments' = comments @@ (id :> NewComment(issue_id, d, c, u))
                  /\ seq' = [seq EXCEPT !.comments = id]
                  /\ now' = u
                  /\ response' = [Respond("add_comment", 201) EXCEPT
                                    !.issue_id = issue_id]
                  /\ UNCHANGED <<issues, labels, issue_labels, sess, touched>>

\* ------------------------------------------------------------------ timeline
\* TimelineEvent: of details the model keeps a note telling the kinds of
\* event apart and the id of the comment or label the event is about.
TimelineEvent(event_type, timestamp, note, ref) ==
  [event_type |-> event_type, timestamp |-> timestamp, note |-> note,
   ref |-> ref]

\* The orders in which a query may return the rows S under ORDER BY key (rows
\* with equal keys come in any order; a constant key is no ORDER BY at all).
Orders(S, key) ==
  {s \in [1 .. Cardinality(S) -> S] :
     /\ \A j, k \in DOMAIN s : j # k => s[j] # s[k]
     /\ \A j, k \in DOMAIN s : j < k => key[s[j]] <= key[s[k]]}

\* CommentRepository.get_by_issue_id
CommentsOf(issue_id) ==
  {c \in DOMAIN comments : comments[c].issue_id = issue_id}
get_by_issue_id(issue_id) ==
  Orders(CommentsOf(issue_id),
         [c \in CommentsOf(issue_id) |-> comments[c].created_at])

\* issue.labels as selectinload fills it
LoadedLabelsEver(issue_id) ==
  Orders(DOMAIN labels, [l \in DOMAIN labels |-> 0])
LoadedLabels(issue_id) ==
  Orders(LabelsOf(issue_id), [l \in LabelsOf(issue_id) |-> 0])

\* get_issue_timeline, step 2: the event inferred from updated_at.
UpdatedEventsOnWrite(issue) ==
  IF issue.version > 1
    THEN <<TimelineEvent("status_changed", issue.updated_at, "updated", 0)>>
    ELSE <<>>
UpdatedEvents(issue) ==
  IF issue.updated_at > issue.created_at
    THEN <<TimelineEvent("status_changed", issue.updated_at, "updated", 0)>>
    ELSE <<>>

\* get_issue_timeline, step 5: the event of resolved_at.
ResolvedEventsByStatus(issue) ==
  IF issue.status = RESOLVED
    THEN <<TimelineEvent("status_changed", issue.resolved_at, "resolved", 0)>>
    ELSE <<>>
ResolvedEvents(issue) ==
  IF issue.resolved_at # None
    THEN <<TimelineEvent("status_changed", issue.resolved_at, "resolved", 0)>>
    ELSE <<>>

\* get_issue_timeline, steps 1 to 5: the events in the order it appends them.
Assemble(issue, cs, ls) ==
  <<TimelineEvent("created", issue.created_at, "created", 0)>>
  \o UpdatedEvents(issue)
  \o [k \in 1 .. Len(cs) |->
        TimelineEvent("comment_added", comments[cs[k]].created_at, "comment",
                      cs[k])]
  \o [k \in 1 .. Len(ls) |->
        TimelineEvent("label_added", issue.updated_at, "label", ls[k])]
  \o ResolvedEvents(issue)

\* timeline.sort(key=lambda x: x.timestamp): a stable sort, computed by
\* inserting each event behind the events that are not later than it.
InsertAtEnd(sorted, e) == Append(sorted, e)
InsertStable(sorted, e) ==
  LET k == Cardinality({j \in DOMAIN sorted :
                          sorted[j].timestamp <= e.timestamp})
  IN SubSeq(sorted, 1, k) \o <<e>> \o SubSeq(sorted, k + 1, Len(sorted))
RECURSIVE sort(_)
sort(timeline) ==
  IF timeline = <<>> THEN <<>>
  ELSE InsertStable(sort(SubSeq(timeline, 1, Len(timeline) - 1)),
                    timeline[Len(timeline)])

\* The lists get_issue_timeline may return for an existing issue.
Timelines(issue_id) ==
  {sort(Assemble(issues[issue_id], cs, ls)) :
     cs \in get_by_issue_id(issue_id), ls \in LoadedLabels(issue_id)}

\* TimelineService.get_issue_timeline
get_issue_timeline(issue_id) ==
  /\ IF issue_id \notin DOMAIN issues
       THEN response' = Respond("get_issue_timeline", 404)
       ELSE \E tl \in Timelines(issue_id) :
              response' = [Respond("get_issue_timeline", 200) EXCEPT
                             !.issue_id = issue_id, !.events = tl]
  /\ UNCHANGED <<issues, labels, issue_labels, seq, now, sess, touched,
                 comments>>

\* Every writing handler and the timeline, one request at a time.
TimelineCreate == {ConcCreate, [ConcCreate EXCEPT !.status = RESOLVED]}
TimelineUpdate == {WithVersion([NoFields EXCEPT !.status = RESOLVED], v) :
                     v \in 1 .. MaxVersion}
TimelineComments == {[body |-> <<"a", " ", "b">>, author_id |-> 1],
                     [body |-> <<" ">>, author_id |-> 1]}
TimelineNames == {<<"bug">>, <<"bug", "urgent">>}
TimelineFiles == {<<RowResolved>>}

\* Updates and labels go to the first issue (or to none), comments and bulk
\* transitions to either issue.
NextTimeline ==
  \/ \E d \in TimelineCreate, c \in Instants(now), u \in Instants(now) :
       create_issue(d, c, u)
  \/ \E i \in {1, MaxIssues + 1}, p \in TimelineUpdate : update_issue(i, p)
  \/ \E ids \in {<<1>>, <<1, MaxIssues>>}, s \in {RESOLVED, OPEN} :
       bulk_update_status(ids, s)
  \/ \E i \in IssueIds, d \in TimelineComments, c \in Instants(now) :
       add_comment(i, d, c, c)
  \/ \E i \in {1, MaxIssues + 1}, names \in TimelineNames :
       replace_labels(i, names)
  \/ \E rows \in TimelineFiles, c \in Instants(now) :
       /\ seq.issues + Len(rows) <= MaxIssues
       /\ import_from_csv(TRUE, rows, c, c)
  \/ \E i \in IssueIds : get_issue_timeline(i)

SpecTimeline == Init /\ [][NextTimeline]_vars

\* Every handler with the request bodies it refuses, on one issue, one
\* request at a time.
ErrorUpdates == {WithVersion(f, v) :
                    f \in {[NoFields EXCEPT !.status = RESOLVED],
                           [NoFields EXCEPT !.assignee_id = 1],
                           [NoFields EXCEPT !.assignee_id = 2]},
                    v \in 1 .. MaxVersion}
ErrorBulkLists == {<<>>, <<1>>, <<1, 1>>, <<1, MaxIssues>>}
ErrorComments == [body : Bodies, author_id : {0, 1, 2}]

NextErrors ==
  \/ \E d \in IssueCreate : issues = <<>> /\ create_issue(d, now, now)
  \/ \E i \in {1, MaxIssues + 1}, p \in ErrorUpdates : update_issue(i, p)
  \/ \E ids \in ErrorBulkLists, s \in {RESOLVED, OPEN} :
       bulk_update_status(ids, s)
  \/ \E i \in {1, MaxIssues + 1}, d \in ErrorComments :
       add_comment(i, d, now, now)
  \/ \E i \in {1, MaxIssues + 1}, names \in NameLists : replace_labels(i, names)
  \/ \E i \in {1, MaxIssues + 1} : get_issue_timeline(i)

SpecErrors == Init /\ [][NextErrors]_vars

\* ------------------------------------- create and comment, statement by statement
\* create_issue up to the commit: the assignee check and IssueRepository.create
\* (add, flush, refresh); the INSERT stays inside the session's transaction.
begin_create(s, d, c, u) ==
  /\ sess[s].pc \in {"idle", "done"}
  /\ seq.issues < MaxIssues
  /\ c \in Instants(now) /\ u \in Instants(c)
  /\ IF create_code(d) = 400
       THEN /\ sess' = [sess EXCEPT ![s] = [IdleSession EXCEPT
                          !.pc = "done", !.op = "create_issue", !.code = 400]]
            /\ response' = Respond("create_issue", 400)
            /\ UNCHANGED <<seq, now>>
       ELSE /\ sess' = [sess EXCEPT ![s] = [IdleSession EXCEPT
                          !.pc = "flushed", !.op = "create_issue",
                          !.issue_id = seq.issues + 1,
                          !.staged = NewIssue(d, c, u)]]
            /\ seq' = [seq EXCEPT !.issues = @ + 1]
            /\ now' = u
            /\ UNCHANGED response
  /\ UNCHANGED <<issues, labels, issue_labels, touched, comments>>

\* create_issue: db.commit() and the response.
commit_create(s) ==
  /\ sess[s].pc = "flushed"
  /\ sess[s].op = "create_issue"
  /\ issues' = issues @@ (sess[s].issue_id :> sess[s].staged)
  /\ touched' = touched @@ (sess[s].issue_id :> 0)
  /\ sess' = [sess EXCEPT ![s] = [IdleSession EXCEPT
                !.pc = "done", !.op = "create_issue", !.code = 201,
                !.issue_id = sess[s].issue_id,
                !.commits = sess[s].commits + 1]]
  /\ response' = [Respond("create_issue", 201) EXCEPT
                    !.issue_id = sess[s].issue_id]
  /\ UNCHANGED <<labels, issue_labels, seq, now, comments>>

\* CommentRepository.create: add, flush, refresh. The INSERT stays inside the
\* session's transaction: the committed table is as it was.
FlushCommentAutocommit(tbl, id, row) == tbl @@ (id :> row)
FlushComment(tbl, id, row) == tbl

\* add_comment up to the commit: the schema, the two checks and
\* CommentRepository.create.
begin_comment(s, issue_id, d, c, u) ==
  /\ sess[s].pc \in {"idle", "done"}
  /\ seq.comments < MaxComments
  /\ c \in Instants(now) /\ u \in Instants(c)
  /\ LET code == comment_code(issue_id, d)
         id == seq.comments + 1
     IN IF code # 201
          THEN /\ sess' = [sess EXCEPT ![s] = [IdleSession EXCEPT
                             !.pc = "done", !.op = "add_comment", !.code = code]]
               /\ response' = Respond("add_comment", code)
               /\ UNCHANGED <<seq, now, comments>>
          ELSE /\ sess' = [sess EXCEPT ![s] = [IdleSession EXCEPT
                             !.pc = "flushed", !.op = "add_comment",
                             !.issue_id = id,
                             !.staged = NewComment(issue_id, d, c, u)]]
               /\ seq' = [seq EXCEPT !.comments = id]
               /\ now' = u
               /\ comments' = FlushComment(comments, id,
                                           NewComment(issue_id, d, c, u))
               /\ UNCHANGED response
  /\ UNCHANGED <<issues, labels, issue_labels, touched>>

\* add_comment: db.commit() and the response.
commit_comment(s) ==
  /\ sess[s].pc = "flushed"
  /\ sess[s].op = "add_comment"
  /\ comments' = comments @@ (sess[s].issue_id :> sess[s].staged)
  /\ sess' = [sess EXCEPT ![s] = [IdleSession EXCEPT
                !.pc = "done", !.op = "add_comment", !.code = 201,
                !.commits = sess[s].commits + 1]]
  /\ response' = [Respond("add_comment", 201) EXCEPT
                    !.issue_id = sess[s].staged.issue_id]
  /\ UNCHANGED <<issues, labels, issue_labels, seq, now, touched>>

\* Every mutating handler, statement by statement, one request at a time.
UnitComments == TimelineComments \cup
                  {[body |-> <<"a", " ", "b">>, author_id |-> 2]}
UnitFiles == {<<RowResolved>>, <<RowValid, RowLongTitle>>}

NextUnits ==
  \/ \E d \in IssueCreate : seq.issues = 0 /\ begin_create(1, d, now, now)
  \/ commit_create(1)
  \/ \E i \in {1, MaxIssues + 1}, p \in TimelineUpdate :
       begin_update(1, i, p, now, now)
  \/ flush_update(1)
  \/ commit_update(1)
  \/ \E i \in {1, MaxIssues + 1}, d \in UnitComments :
       begin_comment(1, i, d, now, now)
  \/ commit_comment(1)
  \/ \E i \in {1, MaxIssues + 1}, names \in {<<"bug">>, <<"bug", "bug">>} :
       begin_labels(1, i, names)
  \/ lookup_label(1)
  \/ insert_label_row(1)
  \/ assign_labels(1)
  \/ flush_labels(1)
  \/ commit_labels(1)
  \/ \E ids \in ErrorBulkLists : begin_bulk(1, ids, OPEN)
  \/ flush_bulk(1)
  \/ commit_bulk(1)
  \/ \E rows \in UnitFiles : seq.issues = 0 /\ begin_import(1, TRUE, rows)
  \/ begin_import(1, FALSE, <<>>)
  \/ import_row(1)
  \/ commit_import(1)

SpecUnits == Init /\ [][NextUnits]_vars

\* ------------------------------------------------------------- cancellation
\* get_db: "finally: await session.close()". Closing the session rolls its
\* open transaction back: of what the request flushed, nothing reaches the
\* committed table.
close_committing(tbl, s) ==
  IF sess[s].op = "update_issue" /\ sess[s].pc = "flushed"
    THEN [tbl EXCEPT ![sess[s].issue_id] =
            ApplyUpdate(@, sess[s].obj, sess[s].dirty)]
    ELSE tbl
close(tbl, s) == tbl

\* The caller goes away while the handler is between two statements, before
\* db.commit(): the handler is cancelled, get_db closes the session, and
\* nobody receives an answer (code 0). The sequences keep the values drawn.
abort(s) ==
  /\ sess[s].pc \notin {"idle", "done"}
  /\ issues' = close(issues, s)
  /\ sess' = [sess EXCEPT ![s] = [IdleSession EXCEPT
                !.pc = "done", !.op = sess[s].op, !.code = 0]]
  /\ UNCHANGED <<labels, issue_labels, seq, now, response, touched, comments>>

NextCancel ==
  \/ NextUnits
  \/ abort(1)

SpecCancel == Init /\ [][NextCancel]_vars

\* ------------------------------------------------------------------- reports
MaxLimit == 2       \* largest limit a report request carries

\* WHERE status = 'resolved' AND assignee_id IS NOT NULL ... GROUP BY
\* assignee_id: the groups, and count(Issue.id) of a group.
ResolvedAssigned ==
  {i \in DOMAIN issues : /\ issues[i].status = RESOLVED
                         /\ issues[i].assignee_id # None}
Assignees == {issues[i].assignee_id : i \in ResolvedAssigned}
resolved_count(a) ==
  Cardinality({i \in ResolvedAssigned : issues[i].assignee_id = a})

\* ORDER BY count(Issue.id) DESC, as a key that Orders sorts ascending.
CountKeyAscending(a) == resolved_count(a)
CountKey(a) == 0 - resolved_count(a)

\* IssueRepository.get_top_assignees: the row lists the query may return.
TopAssignees(limit) ==
  {SubSeq(o, 1, IF Len(o) < limit THEN Len(o) ELSE limit) :
     o \in Orders(Assignees, [a \in Assignees |-> CountKey(a)])}

\* ReportService.get_top_assignees
get_top_assignees(limit) ==
  /\ \E rows \in TopAssignees(limit) :
       response' = [Respond("get_top_assignees", 200) EXCEPT
                      !.limit = limit,
                      !.report = [k \in DOMAIN rows |->
                                    [assignee_id |-> rows[k],
                                     resolved_count |-> resolved_count(rows[k])]]]
  /\ UNCHANGED <<issues, labels, issue_labels, seq, now, sess, touched,
                 comments>>

\* Issues imported with and without an assignee, reopened and resolved in
\* bulk, and the report.
RowResolvedThree == [RowResolved EXCEPT !.assignee_id = "3"]
ReportFiles == {<<RowResolved>>, <<RowResolvedThree>>, <<RowValid>>}

NextReport ==
  \/ \E rows \in ReportFiles :
       /\ seq.issues <= MaxIssues
       /\ import_from_csv(TRUE, rows, now, now)
  \/ \E s \in {RESOLVED, OPEN} : bulk_update_status(<<1>>, s)
  \/ \E limit \in 1 .. MaxLimit : get_top_assignees(limit)

SpecReport == Init /\ [][NextReport]_vars

\* --------------------------------------------------------------------- reads
\* A SELECT executed in a session that get_db closes without commit
\* (autoflush=False): the rows are read and none is written; no onupdate
\* default fires.
execute_select_onupdate(tbl) ==
  [i \in DOMAIN tbl |-> [tbl[i] EXCEPT !.updated_at = now]]
execute_select(tbl) == tbl

\* IssueService.get_issue; detailed selects IssueDetailResponse, which adds
\* the comments (count keeps their number).
get_issue(issue_id, detailed) ==
  /\ response' =
       IF issue_id \notin DOMAIN issues THEN Respond("get_issue", 404)
       ELSE [Respond("get_issue", 200) EXCEPT
               !.issue_id = issue_id,
               !.status = issues[issue_id].status,
               !.label_names = LabelNamesOf(issue_id),
               !.count = IF detailed THEN Cardinality(CommentsOf(issue_id)) ELSE 0]
  /\ issues' = execute_select(issues)
  /\ UNCHANGED <<labels, issue_labels, seq, now, sess, touched, comments>>

\* IssueRepository.get_all: the filters (a falsy filter is no filter).
Filtered(status, priority, assignee_id) ==
  {i \in DOMAIN issues :
     /\ status = NoneStr \/ issues[i].status = status
     /\ priority = NoneStr \/ issues[i].priority = priority
     /\ assignee_id = None \/ issues[i].assignee_id = assignee_id}

\* IssueRepository.get_all: ORDER BY created_at DESC OFFSET skip LIMIT limit.
Page(o, skip, limit) ==
  IF skip >= Len(o) THEN <<>>
  ELSE SubSeq(o, skip + 1, IF Len(o) < skip + limit THEN Len(o) ELSE skip + limit)

\* IssueService.list_issues: the page of issues (their ids) and the total.
list_issues(page, page_size, status, priority, assignee_id) ==
  /\ \E f \in {Filtered(status, priority, assignee_id)} :
       \E o \in Orders(f, [i \in f |-> 0 - issues[i].created_at]) :
         response' = [Respond("list_issues", 200) EXCEPT
                        !.issue_ids = Page(o, (page - 1) * page_size, page_size),
                        !.count = Cardinality(f),
                        !.limit = page_size]
  /\ issues' = execute_select(issues)
  /\ UNCHANGED <<labels, issue_labels, seq, now, sess, touched, comments>>

\* IssueRepository.get_resolution_latency: WHERE status = 'resolved' AND
\* assignee_id IS NOT NULL AND resolved_at IS NOT NULL ... GROUP BY
\* assignee_id.
ResolvedTimedAnyTimestamp ==
  {i \in DOMAIN issues : /\ issues[i].status = RESOLVED
                         /\ issues[i].assignee_id # None}
ResolvedTimed ==
  {i \in DOMAIN issues : /\ issues[i].status = RESOLVED
                         /\ issues[i].assignee_id # None
                         /\ issues[i].resolved_at # None}
LatencyGroup(a) == {i \in ResolvedTimed : issues[i].assignee_id = a}
LatencyAssignees == {issues[i].assignee_id : i \in ResolvedTimed}

\* Sum over a group of resolved_at - created_at, in instants (one instant
\* stands for one hour; NULL counts as instant 0).
RECURSIVE LatencySum(_)
LatencySum(S) ==
  IF S = {} THEN 0
  ELSE LET i == CHOOSE x \in S : TRUE
       IN (issues[i].resolved_at - issues[i].created_at) + LatencySum(S \ {i})

\* ORDER BY avg(...): the average scaled to an integer (groups have at most
\* six members here).
OrderScale == 60
AvgKey(a) == (LatencySum(LatencyGroup(a)) * OrderScale)
               \div Cardinality(LatencyGroup(a))

\* ReportService.get_resolution_latency: round(avg_hours, 2), in hundredths
\* of an hour.
round2(sum, n) == (200 * sum + n) \div (2 * n)

\* ReportService.get_resolution_latency
get_resolution_latency ==
  /\ \E rows \in Orders(LatencyAssignees, [a \in LatencyAssignees |-> AvgKey(a)]) :
       response' = [Respond("get_resolution_latency", 200) EXCEPT
                      !.report = [k \in DOMAIN rows |->
                         [assignee_id |-> rows[k],
                          average_resolution_hours |->
                            round2(LatencySum(LatencyGroup(rows[k])),
                                   Cardinality(LatencyGroup(rows[k]))),
                          resolved_count |-> Cardinality(LatencyGroup(rows[k]))]]]
  /\ issues' = execute_select(issues)
  /\ UNCHANGED <<labels, issue_labels, seq, now, sess, touched, comments>>

\* Issues imported as resolved or open, resolved and reopened in bulk,
\* commented and labelled, and every reading handler.
ReadFiles == {<<RowResolved>>, <<RowResolvedThree>>, <<RowValid>>}

NextReads ==
  \/ \E rows \in ReadFiles :
       /\ seq.issues < MaxIssues
       /\ import_from_csv(TRUE, rows, now, now)
  \/ \E ids \in {<<1>>, <<1, MaxIssues>>}, s \in {RESOLVED, OPEN} :
       bulk_update_status(ids, s)
  \/ \E d \in TimelineComments : add_comment(1, d, now, now)
  \/ replace_labels(1, <<"bug">>)
  \/ \E i \in {1, MaxIssues + 1}, detailed \in BOOLEAN : get_issue(i, detailed)
  \/ \E page \in 1 .. 2, page_size \in 1 .. 2,
        f \in {<<NoneStr, None>>, <<RESOLVED, 1>>} :
       list_issues(page, page_size, f[1], NoneStr, f[2])
  \/ \E limit \in 1 .. MaxLimit : get_top_assignees(limit)
  \/ get_resolution_latency
  \/ \E i \in {1, MaxIssues + 1} : get_issue_timeline(i)

SpecReads == Init /\ [][NextReads]_vars

\* ----------------------------------------------------------------- deletion
\* DELETE FROM issues WHERE id = :id. Issue.comments has cascade "all,
\* delete-orphan" and comments.issue_id is ON DELETE CASCADE: the comments of
\* the issue go with it.
CascadeCommentsNone(tbl, issue_id) == tbl
CascadeComments(tbl, issue_id) ==
  [c \in {x \in DOMAIN tbl : tbl[x].issue_id # issue_id} |-> tbl[c]]

\* issue_labels.issue_id is ON DELETE CASCADE (and Issue.labels is a
\* secondary relationship): the association rows of the issue go with it.
CascadeLabels(assoc, issue_id) == {pr \in assoc : pr[1] # issue_id}

\* IssueRepository.delete (db.delete, flush) on a loaded issue, committed by
\* its caller; no route of the service calls it.
delete(issue_id) ==
  /\ issue_id \in DOMAIN issues
  /\ issues' = [i \in DOMAIN issues \ {issue_id} |-> issues[i]]
  /\ touched' = [i \in DOMAIN touched \ {issue_id} |-> touched[i]]
  /\ comments' = CascadeComments(comments, issue_id)
  /\ issue_labels' = CascadeLabels(issue_labels, issue_id)
  /\ response' = [Respond("delete", 200) EXCEPT !.issue_id = issue_id]
  /\ UNCHANGED <<labels, seq, now, sess>>

\* Issues with comments and labels, created and deleted.
NextDelete ==
  \/ \E d \in TimelineCreate : create_issue(d, now, now)
  \/ \E i \in IssueIds, d \in ErrorComments : add_comment(i, d, now, now)
  \/ \E i \in IssueIds, names \in TimelineNames : replace_labels(i, names)
  \/ \E i \in IssueIds : delete(i)

SpecDelete == Init /\ [][NextDelete]_vars

\* ---------------------------------------------------------------- assignees
\* The three handlers that write assignee_id, with assignee ids that name a
\* user, name none, or are absent.
AssigneeCreate == {[ConcCreate EXCEPT !.assignee_id = a] : a \in {None} \cup UserIds}
AssigneeFiles == {<<RowResolved>>, <<RowNoSuchUser>>, <<RowBadAssignee, RowValid>>}

NextAssignee ==
  \/ \E d \in AssigneeCreate : create_issue(d, now, now)
  \/ \E i \in IssueIds, p \in ErrorUpdates : update_issue(i, p)
  \/ \E rows \in AssigneeFiles :
       /\ seq.issues + Len(rows) <= MaxIssues
       /\ import_from_csv(TRUE, rows, now, now)

SpecAssignee == Init /\ [][NextAssignee]_vars

\* ------------------------------------------------------------------ claims
\* The steps of Spec are whole requests and each sets `response`, so a claim
\* about one operation has a state part (what the operation answers in every
\* reachable state, for every request) and a step part (what a step with that
\* answer did to the tables).

\* C2: update_issue on an existing issue with an expected version other than
\* the current one answers 409 and changes no table (no field of any issue,
\* version, updated_at and resolved_at included).
C2_ConflictChangesNothing ==
  /\ [](\A i \in DOMAIN issues, p \in IssueUpdate :
          issues[i].version # p.version => update_code(i, p) = 409)
  /\ [][(response'.op = "update_issue" /\ response'.code = 409)
          => /\ issues' = issues
             /\ labels' = labels
             /\ issue_labels' = issue_labels
             /\ touched' = touched]_vars

\* C2 witness: a version conflict was answered for an issue that had been
\* updated before.
C2_Witness ==
  /\ response.op = "update_issue"
  /\ response.code = 409
  /\ \E i \in DOMAIN issues : issues[i].version > 1

\* C3: update_issue on an existing issue with the expected version equal to
\* the current version v and a valid or absent assignee succeeds and leaves
\* version v + 1, whatever the patch.
C3_MatchingVersionSucceeds ==
  \A i \in DOMAIN issues, p \in IssueUpdate :
    (issues[i].version = p.version /\ AssigneeOk(p)) => update_code(i, p) = 200

\* resolved_at is non-null iff status is resolved.
ResolvedIff(issue) == (issue.resolved_at # None) <=> (issue.status = RESOLVED)

\* C5: after every successful update_issue and every successful
\* bulk_update_status each issue the operation touched has resolved_at
\* non-null iff its status is resolved.
C5_ResolvedAtIffResolved ==
  /\ (response.op = "update_issue" /\ response.code = 200)
       => ResolvedIff(issues[response.issue_id])
  /\ (response.op = "bulk_update_status" /\ response.code = 200)
       => \A i \in Range(response.issue_ids) : ResolvedIff(issues[i])

\* C6: bulk_update_status on a list with an id that names no issue fails and
\* changes no issue (status, version, updated_at, resolved_at all kept).
C6_BulkAllOrNothing ==
  /\ [](\A ids \in BulkLists :
          (\E k \in DOMAIN ids : ids[k] \notin DOMAIN issues)
            => bulk_code(ids) \in {400, 422})
  /\ [][(response'.op = "bulk_update_status" /\ response'.code \in {400, 422})
          => /\ issues' = issues
             /\ touched' = touched]_vars

\* C6 witness: a bulk transition was refused while issues exist.
C6_Witness ==
  /\ response.op = "bulk_update_status"
  /\ response.code = 400
  /\ DOMAIN issues # {}

\* C7: on a (validated, duplicate-free) list whose ids all name issues,
\* bulk_update_status answers updated_count = len(ids), and every listed issue
\* has the new status and a version exactly 1 higher.
C7_BulkCountsAll ==
  /\ [](\A ids \in BulkLists :
          (Len(ids) >= 1 /\ validate_unique(ids) /\ Range(ids) \subseteq DOMAIN issues)
            => bulk_code(ids) = 200)
  /\ [][(response'.op = "bulk_update_status" /\ response'.code = 200)
          => /\ response'.count = Len(response'.issue_ids)
             /\ \A i \in Range(response'.issue_ids) :
                  /\ issues'[i].status = response'.status
                  /\ issues'[i].version = issues[i].version + 1]_vars

\* C7 witness: a bulk transition of two issues succeeded.
C7_Witness ==
  /\ response.op = "bulk_update_status"
  /\ response.code = 200
  /\ response.count = 2

C10_LabelNamesUnique ==
  \A l1, l2 \in DOMAIN labels : labels[l1].name = labels[l2].name => l1 = l2

\* C10 witness: a label INSERT was refused or rolled back (its sequence value
\* is burnt) while labels are stored and no request is in flight.
C10_Witness ==
  /\ \E s \in Sessions : sess[s].op = "replace_labels" /\ sess[s].code = 500
  /\ \A s \in Sessions : sess[s].pc \in {"idle", "done"}
  /\ labels # <<>>
  /\ seq.labels > Cardinality(DOMAIN labels)

\* C1: of two update_issue requests on the same issue that carry the same
\* expected version, at most one succeeds.
C1_NoLostUpdate ==
  \A s, t \in Sessions :
    (/\ s # t
     /\ sess[s].pc = "done" /\ sess[s].op = "update_issue"
     /\ sess[t].pc = "done" /\ sess[t].op = "update_issue"
     /\ sess[s].issue_id = sess[t].issue_id
     /\ sess[s].expected = sess[t].expected)
      => ~(sess[s].code = 200 /\ sess[t].code = 200)

\* C4: the version of every issue is 1 plus the number of successful
\* update_issue and bulk_update_status operations that touched it.
C4_VersionCountsWrites ==
  \A i \in DOMAIN issues : issues[i].version = 1 + touched[i]

\* C11: replace_labels, successful or not, leaves every issue row as it was
\* (version, title, status, priority, assignee, resolved_at) and leaves the
\* label associations of every other issue as they were.
C11_LabelsFrame ==
  [][response'.op = "replace_labels"
       => /\ issues' = issues
          /\ touched' = touched
          /\ \A j \in DOMAIN issues :
               j # response'.issue_id
                 => {pr \in issue_labels' : pr[1] = j}
                      = {pr \in issue_labels : pr[1] = j}]_vars

\* C11 witness: a replacement succeeded on one issue while another issue
\* holds a different, non-empty label set.
C11_Witness ==
  /\ response.op = "replace_labels"
  /\ response.code = 200
  /\ \E j \in DOMAIN issues :
       /\ j # response.issue_id
       /\ LabelsOf(j) # {}
       /\ LabelsOf(j) # LabelsOf(response.issue_id)

EntriesOf(o, row_num) == {e \in DOMAIN o.errors : o.errors[e].row_number = row_num}

\* C13: for every file, import processes every row: each row with a validation
\* error yields exactly one error entry and no issue, each row without one
\* creates exactly one issue, whatever the rows before it, and the import
\* commits as many issues as it reports successful.
C13_ImportRowIsolated ==
  \A rows \in ImportFiles :
    \A o \in {ImportOutcome(TRUE, rows, now, now)},
       bad \in {{k \in DOMAIN rows : RowErrors(rows[k]) # <<>>}} :
       /\ o.code = 200
       /\ o.total_rows = Len(rows)
       /\ \A k \in DOMAIN rows :
            Cardinality(EntriesOf(o, k + 1)) = IF k \in bad THEN 1 ELSE 0
       /\ Cardinality(DOMAIN o.committed) = Len(rows) - Cardinality(bad)
       /\ o.successful = Cardinality(DOMAIN o.committed)

\* C14: in every import result, failed is the number of error entries,
\* successful is total_rows minus failed, and the error entries have strictly
\* increasing row numbers (so at most one per row, in row order).
C14_ImportCounts ==
  (response.op = "import_from_csv" /\ response.code = 200)
    => /\ response.failed = Len(response.errors)
       /\ response.successful = response.total_rows - response.failed
       /\ \A e, f \in DOMAIN response.errors :
            e < f => response.errors[e].row_number < response.errors[f].row_number

\* C14 witness: an import result with two error entries and one success.
C14_Witness ==
  /\ response.op = "import_from_csv"
  /\ response.code = 200
  /\ Len(response.errors) = 2
  /\ response.successful = 1

\* C15: in every import result the error entry of the k-th data row carries
\* row_number k + 1 (the header is row 1) and that row's messages, and every
\* error entry is the entry of such a row.
C15_RowNumbers ==
  \A rows \in ImportFiles :
    \A o \in {ImportOutcome(TRUE, rows, now, now)} :
       o.code = 200
         => /\ \A k \in DOMAIN rows :
                 RowErrors(rows[k]) # <<>>
                   => \E e \in DOMAIN o.errors :
                        o.errors[e] = [row_number |-> k + 1,
                                       errors |-> RowErrors(rows[k])]
            /\ \A e \in DOMAIN o.errors :
                 /\ o.errors[e].row_number - 1 \in DOMAIN rows
                 /\ RowErrors(rows[o.errors[e].row_number - 1]) # <<>>

\* C15 witness: an import reported an error on the first data row as row 2.
C15_Witness ==
  /\ response.op = "import_from_csv"
  /\ response.code = 200
  /\ response.errors # <<>>
  /\ response.errors[1].row_number = 2
  /\ response.successful > 0

\* C16 as amended: the 5-row file whose second data row has an unparsable
\* status gives total_rows 5, successful 4, failed 1 and one error entry, with
\* row_number 3.
C16_FiveRowsRowThree ==
  \A o \in {ImportOutcome(TRUE, FiveRows, now, now)} :
     /\ o.code = 200
     /\ o.total_rows = 5 /\ o.successful = 4 /\ o.failed = 1
     /\ Len(o.errors) = 1
     /\ o.errors[1].row_number = 3

\* C16 as stated: the same file gives total_rows 5, successful 4, failed 1 and
\* one error entry, with row_number 4.
C16_FiveRowsRowFour ==
  \A o \in {ImportOutcome(TRUE, FiveRows, now, now)} :
     /\ o.code = 200
     /\ o.total_rows = 5 /\ o.successful = 4 /\ o.failed = 1
     /\ Len(o.errors) = 1
     /\ o.errors[1].row_number = 4

\* C16 witness: the 5-row file has been imported.
C16_Witness ==
  /\ response.op = "import_from_csv"
  /\ response.total_rows = 5
  /\ response.successful = 4
  /\ Cardinality(DOMAIN issues) >= 4

\* C18: every issue an import creates has version 1 and resolved_at null,
\* whatever status its row supplies.
C18_ImportedLiteral ==
  [][response'.op = "import_from_csv"
       => \A i \in DOMAIN issues' \ DOMAIN issues :
            /\ issues'[i].version = 1
            /\ issues'[i].resolved_at = None]_vars

\* C18 witness: an import created an issue with status resolved and
\* resolved_at null.
C18_Witness ==
  /\ response.op = "import_from_csv"
  /\ response.successful > 0
  /\ \E i \in DOMAIN issues :
       issues[i].status = RESOLVED /\ issues[i].resolved_at = None

\* C17: the rows an import has flushed are in no committed table before its
\* commit; the issues table changes only by the commit of an import, which
\* adds all rows of the batch at once, as many as the result it then returns
\* reports successful; an import that ends without that commit leaves the
\* table as it was.
C17_BatchDurability ==
  /\ [](\A s \in Sessions :
          sess[s].pc = "importing"
            => DOMAIN sess[s].imp.added \cap DOMAIN issues = {})
  /\ [][\A s \in Sessions :
          (sess[s].pc = "importing" /\ sess'[s].pc = "done")
            => IF sess'[s].code = 200
                 THEN /\ issues' = issues @@ sess[s].imp.added
                      /\ response'.op = "import_from_csv"
                      /\ response'.successful
                           = Cardinality(DOMAIN issues' \ DOMAIN issues)
                 ELSE issues' = issues]_vars
  /\ [][issues' # issues
          => \E s \in Sessions :
               /\ sess[s].pc = "importing"
               /\ sess'[s].pc = "done"
               /\ sess'[s].code = 200]_vars

\* C17 witness: one import has committed while another holds flushed rows,
\* and an import has ended without commit after flushing rows.
C17_Witness ==
  /\ DOMAIN issues # {}
  /\ \E s \in Sessions :
       sess[s].pc = "importing" /\ DOMAIN sess[s].imp.added # {}
  /\ seq.issues > Cardinality(DOMAIN issues)

\* C19: create_issue with an assignee id that names no user answers 400 and
\* creates nothing; every issue create_issue creates has version 1 and
\* resolved_at null, whatever status the request carries, and it is the only
\* row the request adds.
C19_FreshIssue ==
  /\ [](\A d \in IssueCreate :
          (d.assignee_id # None /\ ~exists(d.assignee_id)) => create_code(d) = 400)
  /\ [][response'.op = "create_issue"
          => IF response'.code = 201
               THEN /\ DOMAIN issues' = DOMAIN issues \cup {response'.issue_id}
                    /\ response'.issue_id \notin DOMAIN issues
                    /\ issues'[response'.issue_id].version = 1
                    /\ issues'[response'.issue_id].resolved_at = None
                    /\ \A i \in DOMAIN issues : issues'[i] = issues[i]
               ELSE /\ response'.code = 400
                    /\ issues' = issues]_vars

\* C19 witness: create_issue has just created an issue with status resolved,
\* after a first issue.
C19_Witness ==
  /\ response.op = "create_issue"
  /\ response.code = 201
  /\ response.issue_id > 1
  /\ issues[response.issue_id].status = RESOLVED

\* C20: in every state reached by create, update, bulk transition,
\* add_comment, replace_labels and import, every list get_issue_timeline can
\* return for an issue is sorted non-decreasing by timestamp, no event of it is
\* earlier than the issue's created_at, and its first event is the created
\* event; so is every list it has returned.
SortedFromCreated(tl) ==
  /\ \A j, k \in DOMAIN tl : j < k => tl[j].timestamp <= tl[k].timestamp
  /\ tl[1].event_type = "created"
  /\ \A k \in DOMAIN tl : tl[k].timestamp >= tl[1].timestamp
  /\ \A k \in DOMAIN tl : k > 1 => tl[k].event_type # "created"
C20_TimelineSorted ==
  /\ \A i \in DOMAIN issues : \A tl \in Timelines(i) :
       /\ SortedFromCreated(tl)
       /\ tl[1].timestamp = issues[i].created_at
  /\ (response.op = "get_issue_timeline" /\ response.code = 200) =>
       SortedFromCreated(response.events)
\* A returned timeline where the sort moved a comment in front of the updated
\* event, the comment ties with the created event, and the label and resolved
\* events are there too.
C20_Witness ==
  /\ response.op = "get_issue_timeline" /\ response.code = 200
  /\ \E j, k \in DOMAIN response.events :
       /\ j < k
       /\ response.events[j].event_type = "comment_added"
       /\ response.events[j].timestamp = response.events[1].timestamp
       /\ response.events[k].note = "updated"
  /\ \E k \in DOMAIN response.events : response.events[k].note = "label"
  /\ \E k \in DOMAIN response.events : response.events[k].note = "resolved"

\* C21: every list get_issue_timeline can return for an issue holds exactly
\* one created event, exactly one comment_added event for each comment of the
\* issue, at that comment's created_at, and exactly one label_added event for
\* each label now associated with the issue, at the issue's updated_at, and no
\* other comment_added or label_added event: a label that a later
\* replace_labels removed has none.
EventsOf(tl, note) == {k \in DOMAIN tl : tl[k].note = note}
OneUpdatedEvent(tl, issue) ==
  /\ Cardinality(EventsOf(tl, "updated")) <= 1
  /\ EventsOf(tl, "updated") # {} <=> issue.updated_at > issue.created_at
  /\ \A k \in EventsOf(tl, "updated") :
       /\ tl[k].event_type = "status_changed"
       /\ tl[k].timestamp = issue.updated_at
C22_OneUpdatedEvent ==
  /\ \A i \in DOMAIN issues : \A tl \in Timelines(i) :
       OneUpdatedEvent(tl, issues[i])
  /\ (response.op = "get_issue_timeline" /\ response.code = 200) =>
       OneUpdatedEvent(response.events, issues[response.issue_id])
\* C22 as stated: the list holds an event whose type is updated if and only
\* if updated_at is strictly later than created_at.
C22_EventOfTypeUpdated ==
  \A i \in DOMAIN issues : \A tl \in Timelines(i) :
    (\E k \in DOMAIN tl : tl[k].event_type = "updated")
      <=> issues[i].updated_at > issues[i].created_at
\* A returned timeline of an issue that two writes have changed, with its
\* one event of the update.
C22_Witness ==
  /\ response.op = "get_issue_timeline" /\ response.code = 200
  /\ issues[response.issue_id].version = MaxVersion
  /\ Cardinality(EventsOf(response.events, "updated")) = 1

\* C23: every list get_issue_timeline can return for an issue holds a
\* status_changed event of the resolution, at resolved_at, if and only if the
\* issue's resolved_at is not null, and never more than one, however often the
\* issue has entered and left the resolved status.
OneResolvedEvent(tl, issue) ==
  /\ Cardinality(EventsOf(tl, "resolved")) <= 1
  /\ EventsOf(tl, "resolved") # {} <=> issue.resolved_at # None
  /\ \A k \in EventsOf(tl, "resolved") :
       /\ tl[k].event_type = "status_changed"
       /\ tl[k].timestamp = issue.resolved_at
C23_OneResolvedEvent ==
  /\ \A i \in DOMAIN issues : \A tl \in Timelines(i) :
       OneResolvedEvent(tl, issues[i])
  /\ (response.op = "get_issue_timeline" /\ response.code = 200) =>
       OneResolvedEvent(response.events, issues[response.issue_id])
\* A returned timeline of an issue that is resolved after two writes, with
\* its one event of the resolution.
C23_Witness ==
  /\ response.op = "get_issue_timeline" /\ response.code = 200
  /\ issues[response.issue_id].version = MaxVersion
  /\ issues[response.issue_id].status = RESOLVED
  /\ Cardinality(EventsOf(response.events, "resolved")) = 1

\* C24: a request that ends in NotFound (404), VersionConflict (409) or a
\* validation error (400, 422), whichever handler it went to, leaves every
\* table as it was before the request.
C24_ErrorsChangeNothing ==
  [][response'.code \in {404, 409, 400, 422} =>
       UNCHANGED <<issues, labels, issue_labels, comments>>]_vars
\* A bulk transition refused for one missing id while the other id names an
\* issue that has been written, labelled and commented.
C24_Witness ==
  /\ response.op = "bulk_update_status" /\ response.code = 400
  /\ 1 \in DOMAIN issues /\ issues[1].version > 1
  /\ issue_labels # {} /\ comments # <<>>

\* C26: a bulk status request whose id list is empty or names an id twice,
\* and a label assignment whose name list names a name twice, are answered 422
\* by the schema and change no table and no sequence; a bulk transition that
\* succeeds has a non-empty list without duplicates.
HasDuplicate(v) == \E j, k \in DOMAIN v : j # k /\ v[j] = v[k]
C26_DuplicatesRefused ==
  /\ [](/\ \A ids \in ErrorBulkLists :
             (ids = <<>> \/ HasDuplicate(ids)) => bulk_code(ids) = 422
        /\ \A i \in IssueIds, names \in NameLists :
             HasDuplicate(names) => replace_result(i, names).code = 422)
  /\ [][/\ (/\ response'.op \in {"bulk_update_status", "replace_labels"}
            /\ response'.code = 422) =>
              UNCHANGED <<issues, labels, issue_labels, comments, seq>>
        /\ (response'.op = "bulk_update_status" /\ response'.code = 200) =>
              /\ response'.issue_ids # <<>>
              /\ ~HasDuplicate(response'.issue_ids)]_vars
\* A label assignment refused by the schema on an issue that has labels.
C26_Witness ==
  /\ response.op = "replace_labels" /\ response.code = 422
  /\ issue_labels # {}

\* C27: every stored comment has a body with a character that is not
\* whitespace and without whitespace at its ends; a request whose body is
\* empty or only whitespace is answered 422 and stores no comment.
Blank(body) == \A k \in DOMAIN body : body[k] = " "
C27_CommentBodyNotBlank ==
  /\ [](/\ \A c \in DOMAIN comments :
             /\ ~Blank(comments[c].body)
             /\ Head(comments[c].body) # " "
             /\ comments[c].body[Len(comments[c].body)] # " "
        /\ \A i \in IssueIds, d \in CommentCreate :
             Blank(d.body) => comment_code(i, d) = 422)
  /\ [][(response'.op = "add_comment" /\ response'.code = 422) =>
          UNCHANGED <<comments, seq>>]_vars
\* A comment request refused by the schema after a comment was stored whose
\* body had whitespace inside.
C27_Witness ==
  /\ response.op = "add_comment" /\ response.code = 422
  /\ \E c \in DOMAIN comments : Len(comments[c].body) > 1

\* C28: the rows get_top_assignees(limit) returns are at most limit, one per
\* assignee, each with resolved_count equal to the number of issues now in
\* status resolved that are assigned to that user, in non-increasing order of
\* resolved_count, and no user left out has more resolved issues than a user
\* in the rows.
ResolvedIssuesOf(a) ==
  Cardinality({i \in DOMAIN issues : /\ issues[i].status = RESOLVED
                                     /\ issues[i].assignee_id = a})
C28_TopAssignees ==
  response.op = "get_top_assignees" =>
    \E r \in {response.report} :
      /\ Len(r) <= response.limit
      /\ \A j, k \in DOMAIN r : j # k => r[j].assignee_id # r[k].assignee_id
      /\ \A k \in DOMAIN r :
           /\ r[k].assignee_id \in Users
           /\ r[k].resolved_count = ResolvedIssuesOf(r[k].assignee_id)
      /\ \A j, k \in DOMAIN r :
           j < k => r[j].resolved_count >= r[k].resolved_count
      /\ \A a \in Users \ {r[k].assignee_id : k \in DOMAIN r} :
           \A k \in DOMAIN r : ResolvedIssuesOf(a) <= r[k].resolved_count
\* A report of two rows with different counts.
C28_Witness ==
  /\ response.op = "get_top_assignees"
  /\ Len(response.report) = MaxLimit
  /\ response.report[1].resolved_count > response.report[MaxLimit].resolved_count

C30_BulkConflictAborts ==
  [][\A s \in Sessions :
       (/\ sess[s].op = "bulk_update_status" /\ sess[s].pc = "flushed"
        /\ sess'[s].pc = "done")
         => \A i \in DOMAIN sess[s].loaded :
              issues[i].version = sess[s].loaded[i].version]_vars

\* C25: a request to create_issue, update_issue, add_comment, replace_labels,
\* bulk_update_status or import_from_csv that succeeds has committed exactly
\* once, at its end; one that fails has not committed; a bulk_update_status
\* that fails on a missing id has rolled back when its error is answered; and
\* the tables change in no step but a commit.
Succeeded(s) == sess[s].pc = "done" /\ sess[s].code \in {200, 201}
Failed(s) == sess[s].pc = "done" /\ sess[s].code \notin {200, 201}
C25_CommitOnce ==
  /\ [](\A s \in Sessions :
          /\ Succeeded(s) => sess[s].commits = 1 /\ sess[s].rollbacks = 0
          /\ Failed(s) => sess[s].commits = 0
          /\ sess[s].pc # "done" => sess[s].commits = 0
          /\ (/\ Failed(s) /\ sess[s].op = "bulk_update_status"
              /\ sess[s].code = 400) => sess[s].rollbacks = 1)
  /\ [][<<issues, labels, issue_labels, comments>>'
          # <<issues, labels, issue_labels, comments>>
        => \E s \in Sessions :
             /\ sess[s].commits = 0
             /\ sess'[s].commits = 1
             /\ sess'[s].pc = "done"
             /\ sess'[s].code \in {200, 201}]_vars
\* A bulk transition refused for a missing id, after an issue and a comment
\* were committed.
C25_Witness ==
  /\ sess[1].op = "bulk_update_status" /\ sess[1].code = 400
  /\ sess[1].rollbacks = 1
  /\ issues # <<>> /\ comments # <<>>

\* C31: resolution-timestamp policy of update_issue and bulk_update_status. A
\* request that sets status resolved on an issue with resolved_at NULL sets
\* resolved_at to the clock reading of that request; on an issue whose
\* resolved_at is set it keeps that instant; a request that sets any other
\* status leaves resolved_at NULL, also when it was NULL before.
ResolutionPolicy(old, new, status, r) ==
  /\ (status = RESOLVED /\ old.resolved_at = None) => new.resolved_at = r
  /\ (status = RESOLVED /\ old.resolved_at # None) =>
       new.resolved_at = old.resolved_at
  /\ status # RESOLVED => new.resolved_at = None
C31_ResolutionPolicy ==
  /\ [](\A i \in DOMAIN issues : \A r \in Instants(now) : \A u \in Instants(r) :
          /\ \A p \in IssueUpdate :
               (update_code(i, p) = 200 /\ p.status \in IssueStatus) =>
                 /\ UpdatedIssue(issues[i], p, r, u).status = p.status
                 /\ ResolutionPolicy(issues[i], UpdatedIssue(issues[i], p, r, u),
                                     p.status, r)
          /\ \A s \in IssueStatus :
               ResolutionPolicy(issues[i], BulkApply(issues[i], s, u, r), s, r))
  /\ [][/\ (/\ response'.op = "update_issue" /\ response'.code = 200
            /\ issues'[response'.issue_id].status
                 # issues[response'.issue_id].status) =>
              \E r \in now .. now' :
                ResolutionPolicy(issues[response'.issue_id],
                                 issues'[response'.issue_id],
                                 issues'[response'.issue_id].status, r)
        /\ (response'.op = "bulk_update_status" /\ response'.code = 200) =>
              \A i \in Range(response'.issue_ids) :
                /\ issues'[i].status = response'.status
                /\ \E r \in now .. now' :
                     ResolutionPolicy(issues[i], issues'[i], response'.status, r)
       ]_vars
\* An issue resolved at instant 1 whose second successful request, at instant
\* 2, set resolved again and kept the first instant.
C31_Witness ==
  /\ response.op = "bulk_update_status" /\ response.code = 200
  /\ response.status = RESOLVED /\ response.issue_ids = <<1>>
  /\ issues[1].version = 3
  /\ issues[1].resolved_at = 1 /\ issues[1].updated_at = 2

\* C32: a successful update_issue changes, of the issue it names, only the
\* fields its patch sets, version, updated_at and resolved_at: title,
\* description, status, priority and assignee keep their value when the patch
\* leaves them unset, created_at stays, and no other issue and no other table
\* changes.
PatchColumns == {"title", "description", "status", "priority", "assignee_id"}
IsUnset(p, f) == p[f] = (IF f = "assignee_id" THEN Unset ELSE UnsetStr)
KeepsUnset(old, new, p) ==
  /\ \A f \in PatchColumns : IsUnset(p, f) => new[f] = old[f]
  /\ new.created_at = old.created_at
C32_UpdateFrame ==
  /\ [](\A i \in DOMAIN issues, p \in IssueUpdate :
          update_code(i, p) = 200 =>
            \A r \in Instants(now) : \A u \in Instants(r) :
              KeepsUnset(issues[i], UpdatedIssue(issues[i], p, r, u), p))
  /\ [][(response'.op = "update_issue" /\ response'.code = 200) =>
          /\ DOMAIN issues' = DOMAIN issues
          /\ \A j \in DOMAIN issues :
               j # response'.issue_id => issues'[j] = issues[j]
          /\ \E p \in IssueUpdate :
               /\ update_code(response'.issue_id, p) = 200
               /\ KeepsUnset(issues[response'.issue_id],
                             issues'[response'.issue_id], p)
               /\ \A f \in PatchColumns :
                    ~IsUnset(p, f) => issues'[response'.issue_id][f] = p[f]
          /\ UNCHANGED <<labels, issue_labels, comments>>
       ]_vars
\* Two successful patches of the first issue, one that set only the assignee
\* and one that set only the status, with a second issue present.
C32_Witness ==
  /\ response.op = "update_issue" /\ response.code = 200
  /\ response.issue_id = 1
  /\ issues[1].assignee_id = 1 /\ issues[1].status = RESOLVED
  /\ issues[1].version = 3
  /\ 2 \in DOMAIN issues

\* C33: import accepts a row if and only if its title is non-empty, its status
\* and its priority are absent or name a member of the enum ignoring case, and
\* its assignee id is absent or an integer naming an existing user; an
\* accepted row gets status open and priority medium where the cell is absent,
\* and a rejected row lists one message per failed check. Stated for every
\* file and every row of it, on the outcome of the import.
StatusAccepted(row) == row.status = "" \/ Lower(row.status) \in IssueStatus
PriorityAccepted(row) == row.priority = "" \/ Lower(row.priority) \in IssuePriority
AssigneeAccepted(row) ==
  row.assignee_id = "" \/ (IsInt(row.assignee_id) /\ IntOf(row.assignee_id) \in Users)
Accepted(row) ==
  /\ row.title # ""
  /\ StatusAccepted(row) /\ PriorityAccepted(row) /\ AssigneeAccepted(row)
FailedChecks(row) ==
  (IF row.title = "" THEN 1 ELSE 0) + (IF StatusAccepted(row) THEN 0 ELSE 1)
  + (IF PriorityAccepted(row) THEN 0 ELSE 1)
  + (IF AssigneeAccepted(row) THEN 0 ELSE 1)
C33_ImportAcceptsIff ==
  \A rows \in ImportFiles :
    \A o \in {ImportOutcome(TRUE, rows, now, now)},
       acc \in {SelectSeq(rows, Accepted)} :
       /\ o.code = 200
       /\ DOMAIN o.committed = (seq.issues + 1) .. (seq.issues + Len(acc))
       /\ \A j \in DOMAIN acc :
            /\ o.committed[seq.issues + j].title = acc[j].title
            /\ o.committed[seq.issues + j].status =
                 (IF acc[j].status = "" THEN OPEN ELSE Lower(acc[j].status))
            /\ o.committed[seq.issues + j].priority =
                 (IF acc[j].priority = "" THEN MEDIUM ELSE Lower(acc[j].priority))
       /\ \A k \in DOMAIN rows :
            IF Accepted(rows[k])
              THEN EntriesOf(o, k + 1) = {}
              ELSE \E e \in DOMAIN o.errors :
                     /\ EntriesOf(o, k + 1) = {e}
                     /\ Len(o.errors[e].errors) = FailedChecks(rows[k])

\* C34: a request the caller aborts before its commit leaves nothing behind.
\* While a request is in flight, nothing it wrote is in a committed table (the
\* issue or comment it inserted, the rows it imported, the labels and
\* associations it created, the fields it changed); the step that aborts it
\* changes no table; and the finished session holds none of its writes.
InFlight(s) == sess[s].pc \notin {"idle", "done"}
NothingObservable(s) ==
  /\ sess[s].op = "create_issue" => sess[s].issue_id \notin DOMAIN issues
  /\ sess[s].op = "add_comment" => sess[s].issue_id \notin DOMAIN comments
  /\ sess[s].op = "update_issue" =>
       issues[sess[s].issue_id].version + 1 = sess[s].obj.version
  /\ sess[s].op = "bulk_update_status" =>
       \A i \in DOMAIN sess[s].objs : issues[i] = sess[s].loaded[i]
  /\ sess[s].op = "replace_labels" =>
       /\ DOMAIN sess[s].ins \cap DOMAIN labels = {}
       /\ sess[s].pc = "flushed" =>
            AssocAdd(s) \cap issue_labels = {} /\ AssocDel(s) \subseteq issue_labels
  /\ sess[s].op = "import_from_csv" =>
       DOMAIN sess[s].imp.added \cap DOMAIN issues = {}
Aborted(s) == sess[s].pc = "done" /\ sess[s].code = 0
C34_AbortLeavesNothing ==
  /\ [](\A s \in Sessions :
          /\ InFlight(s) => NothingObservable(s)
          /\ Aborted(s) =>
               /\ sess[s].staged = <<>> /\ sess[s].ins = <<>>
               /\ sess[s].imp = <<>> /\ sess[s].objs = <<>>
               /\ sess[s].dirty = {} /\ sess[s].commits = 0)
  /\ [][\A s \in Sessions :
          (InFlight(s) /\ Aborted(s)') =>
            UNCHANGED <<issues, labels, issue_labels, comments>>]_vars
\* An import aborted after its first row was flushed: the sequence has moved
\* and no issue is stored.
C34_Witness ==
  /\ sess[1].pc = "done" /\ sess[1].code = 0
  /\ sess[1].op = "import_from_csv"
  /\ seq.issues = 1
  /\ issues = <<>>

\* C35: in every reachable state each comment references an issue that exists
\* and an author who exists, and each association an issue and a label that
\* exist; add_comment answers an error and stores nothing when the issue or
\* the author does not exist; deleting an issue removes its comments and its
\* label associations.
C35_NoDanglingReference ==
  /\ [](/\ \A c \in DOMAIN comments :
             /\ comments[c].issue_id \in DOMAIN issues
             /\ comments[c].author_id \in Users
        /\ \A pr \in issue_labels :
             pr[1] \in DOMAIN issues /\ pr[2] \in DOMAIN labels
        /\ \A i \in IssueIds, d \in CommentCreate :
             (i \notin DOMAIN issues \/ d.author_id \notin Users) =>
               comment_code(i, d) \in {422, 404, 400})
  /\ [][/\ (response'.op = "add_comment" /\ response'.code # 201) =>
             UNCHANGED <<issues, labels, issue_labels, comments>>
        /\ (response'.op = "delete" /\ response'.issue_id \in DOMAIN issues) =>
             /\ response'.issue_id \notin DOMAIN issues'
             /\ \A c \in DOMAIN comments :
                  IF comments[c].issue_id = response'.issue_id
                    THEN c \notin DOMAIN comments'
                    ELSE c \in DOMAIN comments' /\ comments'[c] = comments[c]
             /\ \A pr \in issue_labels :
                  (pr \in issue_labels') <=> (pr[1] # response'.issue_id)
       ]_vars
\* The first issue was deleted with its comment and its labels; the second
\* issue keeps its comment.
C35_Witness ==
  /\ response.op = "delete" /\ response.issue_id = 1
  /\ DOMAIN issues = {2}
  /\ seq.comments = 2 /\ Cardinality(DOMAIN comments) = 1
  /\ labels # <<>> /\ issue_labels = {}

\* C36: in every state reachable through create_issue, update_issue and
\* import_from_csv the assignee of each issue is null or an existing user:
\* create and update answer 400 for an assignee id that names no user and
\* change nothing, and import records the row as an error and skips it.
NamesNoUser(a) == a \notin {None, Unset} /\ a \notin Users
C36_AssigneeExists ==
  /\ [](/\ \A i \in DOMAIN issues :
             issues[i].assignee_id = None \/ issues[i].assignee_id \in Users
        /\ \A d \in AssigneeCreate :
             NamesNoUser(d.assignee_id) => create_code(d) = 400
        /\ \A i \in DOMAIN issues, p \in IssueUpdate :
             (NamesNoUser(p.assignee_id) /\ VersionMatches(issues[i], p)) =>
               update_code(i, p) = 400
        /\ \A row \in ImportRows :
             (IsInt(row.assignee_id) /\ IntOf(row.assignee_id) \notin Users) =>
               \A o \in {ImportOutcome(TRUE, <<row>>, now, now)} :
                 /\ o.committed = <<>>
                 /\ o.code = 200 /\ o.failed = 1 /\ o.successful = 0)
  /\ [][(response'.op \in {"create_issue", "update_issue"}
          /\ response'.code = 400) => UNCHANGED issues]_vars
\* An issue assigned to an existing user, and an update naming no user
\* refused.
C36_Witness ==
  /\ response.op = "update_issue" /\ response.code = 400
  /\ seq.issues = MaxIssues
  /\ \E i \in DOMAIN issues : issues[i].assignee_id = 1
  /\ \E i \in DOMAIN issues : issues[i].assignee_id = None

\* C37: with one request at a time a stale writer is always rejected. touched
\* counts the committed versioned writes of an issue, so the versions a caller
\* can have read before the latest of them are 1 .. touched: an update_issue
\* carrying one of these is answered 409 in every reachable state, and each
\* committed update_issue or bulk_update_status moves the stored version past
\* every version read before it.
StaleVersions(i) == 1 .. touched[i]
C37_StaleWriterRejected ==
  /\ [](\A i \in DOMAIN issues, p \in IssueUpdate :
          p.version \in StaleVersions(i) => update_code(i, p) = 409)
  /\ [][/\ \A i \in DOMAIN issues :
             (i \in DOMAIN issues' /\ touched'[i] # touched[i]) =>
               /\ touched'[i] = touched[i] + 1
               /\ issues'[i].version = issues[i].version + 1
               /\ \A v \in 1 .. issues[i].version : v # issues'[i].version
        /\ (response'.op = "update_issue" /\ response'.code = 200) =>
             touched'[response'.issue_id] = touched[response'.issue_id] + 1
        /\ (response'.op = "bulk_update_status" /\ response'.code = 200) =>
             \A i \in Range(response'.issue_ids) : touched'[i] = touched[i] + 1
        /\ (response'.op = "update_issue" /\ response'.code = 409) =>
             UNCHANGED <<issues, touched>>
       ]_vars
\* Two versioned writes have committed on the first issue, and an update
\* carrying a version read before them has been refused.
C37_Witness ==
  /\ response.op = "update_issue" /\ response.code = 409
  /\ 1 \in DOMAIN issues
  /\ touched[1] = 2 /\ issues[1].version = 3
  /\ issues[1].assignee_id = 1 /\ issues[1].status = OPEN
  /\ issues[1].updated_at > issues[1].created_at

\* C38: get_issue_timeline, get_issue, list_issues, get_top_assignees and
\* get_resolution_latency are read-only: a step of one of them leaves every
\* issue (its version and updated_at in particular), comment, label and
\* association, the sequences and the clock unchanged.
ReadOps == {"get_issue_timeline", "get_issue", "list_issues",
            "get_top_assignees", "get_resolution_latency"}
C38_ReadsChangeNothing ==
  [][response'.op \in ReadOps =>
       /\ UNCHANGED <<issues, labels, issue_labels, comments, seq, touched>>
       /\ \A i \in DOMAIN issues :
            /\ issues'[i].version = issues[i].version
            /\ issues'[i].updated_at = issues[i].updated_at]_vars
\* A read answered on a store with a versioned write, a comment and a label,
\* after the clock has moved past the issue's last write.
C38_Witness ==
  /\ response.op = "list_issues" /\ response.issue_ids # <<>>
  /\ 1 \in DOMAIN issues /\ issues[1].version = 2
  /\ comments # <<>> /\ issue_labels # {}
  /\ issues[1].updated_at < now

\* C39: update_issue checks in a fixed order and reports the first failure
\* only. For every request in every reachable state: a missing issue is
\* answered 404; an existing issue with another version is answered 409, also
\* when the patch names a non-existent assignee; 400 is answered exactly when
\* the issue exists, the version matches and the assignee names no user.
C39_FirstFailureOnly ==
  /\ [](\A i \in IssueIds, p \in IssueUpdate :
          /\ i \notin DOMAIN issues => update_code(i, p) = 404
          /\ (i \in DOMAIN issues /\ p.version # issues[i].version) =>
               update_code(i, p) = 409
          /\ update_code(i, p) = 400 <=>
               /\ i \in DOMAIN issues
               /\ p.version = issues[i].version
               /\ NamesNoUser(p.assignee_id))
  /\ [][(response'.op = "update_issue" /\ response'.code \in {404, 409, 400}) =>
          /\ UNCHANGED <<issues, touched>>
          /\ response'.code = 404 => IssueIds \ DOMAIN issues # {}
          /\ response'.code \in {409, 400} => issues # <<>>]_vars
\* An update of an existing issue at version 2 answered 409: the requests
\* carrying version 1 include the one that names user 2, who does not exist.
C39_Witness ==
  /\ response.op = "update_issue" /\ response.code = 409
  /\ DOMAIN issues = {1}
  /\ issues[1].version = 2
  /\ update_code(1, WithVersion([NoFields EXCEPT !.assignee_id = 2], 1)) = 409
  /\ update_code(1, WithVersion([NoFields EXCEPT !.assignee_id = 2], 2)) = 400

\* C40: get_resolution_latency reports, per assignee, only the issues in
\* status resolved whose resolved_at is set: an assignee appears exactly when
\* he has such an issue, once, with resolved_count their number and the
\* average over them alone; a resolved issue with resolved_at NULL (an
\* imported one) enters neither the count nor the average.
TimedResolvedOf(a) ==
  {i \in DOMAIN issues : /\ issues[i].assignee_id = a
                         /\ issues[i].status = RESOLVED
                         /\ issues[i].resolved_at # None}
C40_LatencyCountsTimedOnly ==
  [][response'.op = "get_resolution_latency" =>
       \E rep \in {response'.report} :
         /\ {rep[k].assignee_id : k \in DOMAIN rep} =
              {a \in Users : TimedResolvedOf(a) # {}}
         /\ \A j, k \in DOMAIN rep :
              j # k => rep[j].assignee_id # rep[k].assignee_id
         /\ \A k \in DOMAIN rep :
              \E g \in {TimedResolvedOf(rep[k].assignee_id)} :
                /\ rep[k].resolved_count = Cardinality(g)
                /\ \E d \in {rep[k].average_resolution_hours * Cardinality(g)
                             - 100 * LatencySum(g)} :
                     2 * d <= Cardinality(g) /\ 0 - 2 * d <= Cardinality(g)
     ]_vars
\* User 1 has one issue resolved an hour after its creation and one imported
\* as resolved with resolved_at NULL; the report counts one issue for user 1.
C40_Witness ==
  /\ response.op = "get_resolution_latency"
  /\ Len(response.report) = 1
  /\ response.report[1].assignee_id = 1
  /\ response.report[1].resolved_count = 1
  /\ response.report[1].average_resolution_hours = 100
  /\ \E i \in DOMAIN issues : /\ issues[i].assignee_id = 1
                              /\ issues[i].status = RESOLVED
                              /\ issues[i].resolved_at = None

====
